---- MODULE Spec2Model ----
(***************************************************************************)
(* Model of the record reconciliation code of pmtiles_backend:             *)
(* DataMerger (src/downloading_and_geojson_processing/data_merger.py).     *)
(*                                                                         *)
(* A Python dict is a TLA+ function whose DOMAIN is the set of its keys.   *)
(* A feature is a record [hasProps, properties, geometry]; hasProps tells  *)
(* whether the "properties" member is present at all.  A geometry is a     *)
(* record [present, cells]: present = FALSE is a null/missing geometry and *)
(* cells is the set of unit cells of a line the shape covers.              *)
(***************************************************************************)
EXTENDS Integers, Sequences, FiniteSets, TLC

VARIABLES
    pc,                     \* position of the running operation
    parcel_data,            \* first argument (primary record set), a sequence of features
    address_data,           \* second argument (secondary record set)
    parcel_data0,           \* history: the primary record set as it was passed in
    result,                 \* the returned / written feature sequence
    error,                  \* the exception that ended the operation, or NoError
    parcel_features,        \* spatial_join: indexed features (positions in parcel_data)
    parcel_geoms,           \* spatial_join: geometries handed to the STRtree
    geom_wkt_to_idx,        \* spatial_join: geometry (its WKT) -> position in parcel_geoms
    tree,                   \* spatial_join: the order in which the STRtree yields its items
    addr_i,                 \* spatial_join: number of secondary records already processed
    parcel_to_addresses,    \* spatial_join: parcel index -> sequence of matched address positions
    unmatched_addresses,    \* spatial_join: positions of the unmatched secondary records
    total_matched_addresses,\* spatial_join: the printed matched count
    printed,                \* spatial_join: the "matched multiple addresses" reports
    parcel_file_path,       \* join_address_to_parcel: the extension of the primary file's path
    out_type,               \* join_address_to_parcel: the shape of the document written, "" before
    html_string,            \* _extract_properties_from_description: the markup passed in
    geojson_data,           \* standardizer: the record set being worked on (county_data)
    geojson_data0,          \* history: the record set as it was passed in
    once,                   \* history: the record set after the first convert_to_2d_coordinates
    detected_crs,           \* standardizer: what detect_coordinate_system returned, "" before
    county_name,            \* standardize_ownership: the jurisdiction's name, a text
    config,                 \* standardizer: the configuration document (self.config)
    standardized_features,  \* standardize_ownership: the canonical records built so far
    calls,                  \* history: the steps standardize_ownership has invoked, in order
    num_threads,            \* scraper: the num_threads argument
    total_pages,            \* scraper: the local total_pages of scrape_all_properties
    start_page,             \* scraper: worker -> its start_page argument
    end_page,               \* scraper: worker -> its end_page argument (exclusive)
    fetched,                \* scraper: worker -> the (key, page) pairs it has parsed
    mpc,                    \* scraper: position of scrape_all_properties (the main thread)
    launched,               \* scraper: number of workers started
    joined,                 \* scraper: number of workers joined
    wpc,                    \* scraper: worker -> position of its _thread_worker
    page_number,            \* scraper: worker -> the page its loop is at
    thread_props,           \* scraper: worker -> its thread_props dict
    thread_skipped,         \* scraper: worker -> its thread_skipped list
    requested,              \* history: worker -> the pages it has requested
    failed_at,              \* history: worker -> the page whose request or parse failed, 0 if none
    files,                  \* scraper: path -> content of the files written
    thread_files,           \* scraper: the shared list of shard paths
    skipped_files,          \* scraper: the shared list of skipped-record paths
    merged,                 \* scraper: number of shards folded into all_properties
    all_properties,         \* scraper: the merged keyed mapping
    fs,                     \* pipeline: the files on disk
    file_exists,            \* county: whether the file to read exists
    file_bytes,             \* county: the bytes of the file to read
    tried,                  \* county: the encodings the file was opened with, in order
    data_to_standardize,    \* county: what json.load returned, if it did
    std_invoked,            \* county: whether standardize_ownership was called
    sd_error,               \* county: the exception the operation ended with
    county_list,            \* pipeline: the county_list argument
    generate_pmtiles,       \* pipeline: the generate_pmtiles argument
    do_upload,              \* pipeline: upload_to_gcs and not skip_gcs_upload
    needs_merging,          \* pipeline: county -> its needs_merging attribute
    undeletable,            \* pipeline: the files os.unlink fails on
    county_i,               \* pipeline: position in county_list of the current county
    ppc,                    \* pipeline: the step the pipeline is at
    runs,                   \* pipeline: per call of process_county, its steps and its end
    pmtiles_file,           \* pipeline: what generate_pmtiles returned
    tiles_attempted         \* pipeline: whether generate_pmtiles was called

vars == << pc, parcel_data, address_data, parcel_data0, result, error,
           parcel_features, parcel_geoms, geom_wkt_to_idx, tree, addr_i,
           parcel_to_addresses, unmatched_addresses, total_matched_addresses, printed,
           parcel_file_path, out_type,
           html_string, geojson_data, geojson_data0, once, detected_crs, county_name,
           config, standardized_features, calls,
           num_threads, total_pages, start_page, end_page, fetched, mpc, launched, joined, wpc, page_number, thread_props,
           thread_skipped, requested, failed_at, files, thread_files, skipped_files,
           merged, all_properties,
           fs, file_exists, file_bytes, tried, data_to_standardize, std_invoked, sd_error,
           county_list, generate_pmtiles, do_upload, needs_merging, undeletable, county_i,
           ppc, runs, pmtiles_file, tiles_attempted >>

scrapeVars == << num_threads, total_pages, start_page, end_page, fetched, mpc, launched, joined, wpc, page_number, thread_props,
                 thread_skipped, requested, failed_at, files, thread_files, skipped_files,
                 merged, all_properties >>

readVars == << file_exists, file_bytes, tried, data_to_standardize, std_invoked, sd_error >>

runVars == << fs, county_list, generate_pmtiles, do_upload, needs_merging, undeletable,
              county_i, ppc, runs, pmtiles_file, tiles_attempted >>

pipeVars == << readVars, runVars >>

stdVars == << html_string, geojson_data, geojson_data0, once, detected_crs, county_name,
              config, standardized_features, calls >>

joinVars == << parcel_file_path, out_type >>

spatialVars == << parcel_features, parcel_geoms, geom_wkt_to_idx, tree, addr_i,
                  parcel_to_addresses, unmatched_addresses, total_matched_addresses, printed >>

----------------------------------------------------------------------------
(* Bounds of the model *)

\* longest primary record set
MaxParcels == 2
\* longest secondary record set
MaxAddresses == 2

----------------------------------------------------------------------------
(* Python values *)

\* Python's None (also what dict.get returns for an absent key)
None == "<None>"
NoError == "<no error>"

\* bool(v) for the scalar attribute values of the model
Truthy(v) == v /= None /\ v /= ""

EmptyDict == [k \in {} |-> None]

\* d.get(k)
Get(d, k) == IF k \in DOMAIN d THEN d[k] ELSE None

\* d[k] = v
Put(d, k, v) == [x \in (DOMAIN d) \cup {k} |-> IF x = k THEN v ELSE d[x]]

\* feature.get("properties", {})
PropsOf(feature) == IF feature.hasProps THEN feature.properties ELSE EmptyDict

NoGeom == [present |-> FALSE, cells |-> {}]
Geom(S) == [present |-> TRUE, cells |-> S]

Feature(props, geom) == [hasProps |-> TRUE, properties |-> props, geometry |-> geom]
BareFeature(geom) == [hasProps |-> FALSE, properties |-> EmptyDict, geometry |-> geom]

\* all sequences over S of length 0..n
SeqUpTo(S, n) == UNION { [1..k -> S] : k \in 0..n }

\* outside join_address_to_parcel no file is read or written
JoinIdle ==
    /\ parcel_file_path = ""
    /\ out_type = ""

\* the operations leave the spatial-join locals alone
SpatialIdle ==
    /\ parcel_features = << >>
    /\ parcel_geoms = << >>
    /\ geom_wkt_to_idx = EmptyDict
    /\ tree = << >>
    /\ addr_i = 0
    /\ parcel_to_addresses = EmptyDict
    /\ unmatched_addresses = << >>
    /\ total_matched_addresses = 0
    /\ printed = {}

\* outside scrape_all_properties no worker exists and nothing is scraped
ScrapeIdle ==
    /\ num_threads = 0
    /\ total_pages = 0
    /\ start_page = << >>
    /\ end_page = << >>
    /\ fetched = << >>
    /\ mpc = ""
    /\ launched = 0
    /\ joined = 0
    /\ wpc = << >>
    /\ page_number = << >>
    /\ thread_props = << >>
    /\ thread_skipped = << >>
    /\ requested = << >>
    /\ failed_at = << >>
    /\ files = << >>
    /\ thread_files = << >>
    /\ skipped_files = << >>
    /\ merged = 0
    /\ all_properties = << >>

\* outside the pipeline no file is on disk
ReadIdle ==
    /\ file_exists = FALSE
    /\ file_bytes = << >>
    /\ tried = << >>
    /\ data_to_standardize = << >>
    /\ std_invoked = FALSE
    /\ sd_error = << >>

RunIdle ==
    /\ fs = << >>
    /\ county_list = << >>
    /\ generate_pmtiles = FALSE
    /\ do_upload = FALSE
    /\ needs_merging = << >>
    /\ undeletable = {}
    /\ county_i = 0
    /\ ppc = ""
    /\ runs = << >>
    /\ pmtiles_file = << >>
    /\ tiles_attempted = FALSE

PipeIdle ==
    /\ ReadIdle
    /\ RunIdle

\* the merger's operations leave the standardizer's and the extractor's state alone
StdIdle ==
    /\ html_string = << >>
    /\ geojson_data = << >>
    /\ geojson_data0 = << >>
    /\ once = << >>
    /\ detected_crs = ""
    /\ county_name = << >>
    /\ config = << >>
    /\ standardized_features = << >>
    /\ calls = << >>

\* the standardizer's operations leave the merger's record sets alone
MergerIdle ==
    /\ parcel_data = << >>
    /\ address_data = << >>
    /\ parcel_data0 = << >>
    /\ SpatialIdle
    /\ JoinIdle

mergerVars == << parcel_data, address_data, parcel_data0, spatialVars, joinVars >>

----------------------------------------------------------------------------
(* merge_by_id: the exact-attribute join *)

primary_id_field == "id"
secondary_id_field == "sid"

\* the secondary_lookup after the first n features of the secondary set
RECURSIVE SecondaryLookup(_, _, _)
SecondaryLookup(features, field, n) ==
    IF n = 0 THEN EmptyDict
    ELSE LET prev == SecondaryLookup(features, field, n - 1)
             props == PropsOf(features[n])
             id_value == Get(props, field)
         IN IF Truthy(id_value) THEN Put(prev, id_value, props) ELSE prev

\* "for key, value in secondary_props.items(): props[key] = value": every item copied
MergeAll(props, secondary_props) ==
    [k \in (DOMAIN props) \cup (DOMAIN secondary_props) |->
        IF k \in DOMAIN secondary_props THEN secondary_props[k] ELSE props[k]]

\* "for key, value in secondary_props.items(): if key and value: props[key] = value"
MergeNonEmpty(props, secondary_props) ==
    LET copied == { k \in DOMAIN secondary_props : Truthy(k) /\ Truthy(secondary_props[k]) }
    IN [k \in (DOMAIN props) \cup copied |->
           IF k \in copied THEN secondary_props[k] ELSE props[k]]

\* the loop body without the copy of line 30: props still bound to the last secondary record
MergedPropsStale(feature, lookup, secondary) ==
    LET stale == IF Len(secondary) = 0 THEN PropsOf(feature)
                 ELSE PropsOf(secondary[Len(secondary)])
        primary_id == Get(stale, primary_id_field)
    IN IF Truthy(primary_id) /\ primary_id \in DOMAIN lookup
       THEN MergeNonEmpty(stale, lookup[primary_id])
       ELSE stale

\* the properties of one merged feature (loop body, lines 30-38)
MergedProps(feature, lookup, secondary) ==
    LET props == PropsOf(feature)
        primary_id == Get(props, primary_id_field)
    IN IF Truthy(primary_id) /\ primary_id \in DOMAIN lookup
       THEN MergeNonEmpty(props, lookup[primary_id])
       ELSE props

\* merged_features
MergeByIdResult(primary, secondary) ==
    LET lookup == SecondaryLookup(secondary, secondary_id_field, Len(secondary))
    IN [i \in 1..Len(primary) |->
           Feature(MergedProps(primary[i], lookup, secondary), primary[i].geometry)]

\* attribute values for the exact join: a non-empty old and new value, "" and None
IdPrimaryProps ==
    { [id |-> "k1", name |-> "old"],
      [id |-> "k2"],
      [name |-> "old"],
      [id |-> "", name |-> "old"],
      [id |-> None, name |-> "old"] }

IdSecondaryProps ==
    { [sid |-> "k1", name |-> "new", extra |-> "e"],
      [sid |-> "k1", name |-> "", extra |-> None],
      [sid |-> "k2", name |-> "new2"],
      [sid |-> "", name |-> "bad"],
      [name |-> "bad"],
      ("" :> "nokey") @@ [sid |-> "k2"] }

IdPrimaryFeatures ==
    { Feature(p, Geom({1})) : p \in IdPrimaryProps } \cup { BareFeature(NoGeom) }

IdSecondaryFeatures ==
    { Feature(p, NoGeom) : p \in IdSecondaryProps } \cup { BareFeature(NoGeom) }

InitMergeById ==
    /\ pc = "merge_by_id"
    /\ parcel_data \in SeqUpTo(IdPrimaryFeatures, MaxParcels)
    /\ address_data \in SeqUpTo(IdSecondaryFeatures, MaxAddresses)
    /\ parcel_data0 = parcel_data
    /\ result = << >>
    /\ error = NoError
    /\ SpatialIdle
    /\ StdIdle
    /\ ScrapeIdle
    /\ PipeIdle
    /\ JoinIdle

merge_by_id ==
    /\ pc = "merge_by_id"
    /\ result' = MergeByIdResult(parcel_data, address_data)
    /\ pc' = "done"
    /\ UNCHANGED << parcel_data, address_data, parcel_data0, error, spatialVars, joinVars, stdVars, scrapeVars, pipeVars >>

NextMergeById == merge_by_id

SpecMergeById == InitMergeById /\ [][NextMergeById]_vars

----------------------------------------------------------------------------
(* Claims about merge_by_id *)

\* positions of the secondary records whose key value is v
SecondaryWithKey(v) ==
    { j \in 1..Len(address_data) :
        Get(PropsOf(address_data[j]), secondary_id_field) = v }

PrimaryKey(i) == Get(PropsOf(parcel_data0[i]), primary_id_field)

SetMax(S) == CHOOSE x \in S : \A y \in S : y <= x

\* C1: a primary record whose key is missing, empty or carried by no secondary
\* record leaves merge_by_id with exactly its input attributes, and the input
\* primary record set is not changed by the join.
C1_UnmatchedPassThrough ==
    pc = "done" =>
        /\ Len(result) = Len(parcel_data0)
        /\ parcel_data = parcel_data0
        /\ \A i \in 1..Len(parcel_data0) :
              (~Truthy(PrimaryKey(i)) \/ SecondaryWithKey(PrimaryKey(i)) = {})
                  => result[i].properties = PropsOf(parcel_data0[i])

\* an unmatched primary with a usable key has been joined against a non-empty secondary set
C1_Witness ==
    /\ pc = "done"
    /\ Len(address_data) > 0
    /\ \E i \in 1..Len(parcel_data0) :
          /\ Truthy(PrimaryKey(i))
          /\ SecondaryWithKey(PrimaryKey(i)) = {}
          /\ DOMAIN PropsOf(parcel_data0[i]) /= {primary_id_field}
          /\ result[i].properties = PropsOf(parcel_data0[i])

\* C2: where the matched secondary record (the last one carrying the key) has an
\* empty or None value for an attribute, the output keeps the primary's value for
\* it (or the attribute stays absent); whatever differs from the primary's input
\* is a non-empty secondary value.
C2_FalsyNeverOverwrites ==
    pc = "done" =>
        \A i \in 1..Len(parcel_data0) :
            (Truthy(PrimaryKey(i)) /\ SecondaryWithKey(PrimaryKey(i)) /= {}) =>
                LET sec == PropsOf(address_data[SetMax(SecondaryWithKey(PrimaryKey(i)))])
                    inp == PropsOf(parcel_data0[i])
                    out == result[i].properties
                IN /\ \A k \in DOMAIN sec :
                        ~Truthy(sec[k]) =>
                            /\ (k \in DOMAIN out) = (k \in DOMAIN inp)
                            /\ k \in DOMAIN inp => out[k] = inp[k]
                   /\ \A k \in DOMAIN out :
                        (k \notin DOMAIN inp \/ out[k] /= inp[k]) =>
                            /\ k \in DOMAIN sec
                            /\ Truthy(sec[k])
                            /\ out[k] = sec[k]

\* a matched secondary offered an empty value for an attribute the primary holds,
\* and a None value for one it lacks
C2_Witness ==
    /\ pc = "done"
    /\ \E i \in 1..Len(parcel_data0) :
          /\ Truthy(PrimaryKey(i))
          /\ SecondaryWithKey(PrimaryKey(i)) /= {}
          /\ LET sec == PropsOf(address_data[SetMax(SecondaryWithKey(PrimaryKey(i)))])
                 inp == PropsOf(parcel_data0[i])
             IN /\ \E k \in DOMAIN sec \cap DOMAIN inp :
                      ~Truthy(sec[k]) /\ Truthy(inp[k]) /\ result[i].properties[k] = inp[k]
                /\ \E k \in DOMAIN sec \ DOMAIN inp :
                      ~Truthy(sec[k]) /\ k \notin DOMAIN result[i].properties

----------------------------------------------------------------------------
(* spatial_join: the spatial index join *)

parcel_id_field == "PIN"
address_id_field == "FID"

CellMin(S) == CHOOSE x \in S : \A y \in S : x <= y
CellMax(S) == CHOOSE x \in S : \A y \in S : y <= x

\* the envelopes of two shapes overlap (what the STRtree tests)
EnvelopesIntersect(g, h) ==
    /\ g /= {} /\ h /= {}
    /\ CellMin(g) <= CellMax(h)
    /\ CellMin(h) <= CellMax(g)

\* candidate.contains(addr_geom)
Contains(g, h) == h /= {} /\ h \subseteq g

\* candidate.intersects(addr_geom)
Intersects(g, h) == g \cap h /= {}

\* the positions of parcel_data that have a geometry, in order (lines 58-64)
RECURSIVE IndexedFeatures(_, _)
IndexedFeatures(features, n) ==
    IF n = 0 THEN << >>
    ELSE IF features[n].geometry.present
         THEN Append(IndexedFeatures(features, n - 1), n)
         ELSE IndexedFeatures(features, n - 1)

\* geom_wkt_to_idx after the first n indexed geometries (line 65): the last one wins
RECURSIVE WktToIdx(_, _)
WktToIdx(geoms, n) ==
    IF n = 0 THEN EmptyDict
    ELSE Put(WktToIdx(geoms, n - 1), geoms[n], n)

TreeOrders(n) ==
    { f \in [1..n -> 1..n] : \A i, j \in 1..n : f[i] = f[j] => i = j }

\* tree.query(addr_geom): the indexed geometries whose envelope meets the query's,
\* in the order the tree yields them
TreeQuery(order, geoms, addr_geom) ==
    LET hit(k) == EnvelopesIntersect(geoms[order[k]], addr_geom)
        RECURSIVE upTo(_)
        upTo(k) == IF k = 0 THEN << >>
                   ELSE IF hit(k) THEN Append(upTo(k - 1), geoms[order[k]])
                        ELSE upTo(k - 1)
    IN upTo(Len(order))

\* the candidate loop without its break: every matching candidate takes the address
MatchTargetsNoBreak(candidates, wkt_to_idx, addr_geom) ==
    LET RECURSIVE upTo(_)
        upTo(k) == IF k = 0 THEN << >>
                   ELSE IF /\ candidates[k] \in DOMAIN wkt_to_idx
                           /\ (Contains(candidates[k], addr_geom)
                                 \/ Intersects(candidates[k], addr_geom))
                        THEN Append(upTo(k - 1), wkt_to_idx[candidates[k]])
                        ELSE upTo(k - 1)
    IN upTo(Len(candidates))

\* the candidate loop (lines 79-90): the parcel indexes the address is appended to,
\* at most one because of the break
MatchTargets(candidates, wkt_to_idx, addr_geom) ==
    LET ok(k) == /\ candidates[k] \in DOMAIN wkt_to_idx
                 /\ (Contains(candidates[k], addr_geom)
                       \/ Intersects(candidates[k], addr_geom))
        hits == { k \in 1..Len(candidates) : ok(k) }
    IN IF hits = {} THEN << >>
       ELSE << wkt_to_idx[candidates[CellMin(hits)]] >>

\* parcel_to_addresses[idx].append(j) for each idx of targets
RECURSIVE AppendTo(_, _, _)
AppendTo(p2a, targets, j) ==
    IF targets = << >> THEN p2a
    ELSE LET idx == Head(targets)
             old == IF idx \in DOMAIN p2a THEN p2a[idx] ELSE << >>
         IN AppendTo(Put(p2a, idx, Append(old, j)), Tail(targets), j)

\* the applied record taken from the end of the list: addr_list[-1]
AppliedAddressLast(addr_list) == addr_list[Len(addr_list)]

\* addr_list[0] (line 103)
AppliedAddress(addr_list) == addr_list[1]

\* setdefault instead of assignment: an attribute the parcel already has is kept
ApplyAddressPropsKeep(props, addr_props) ==
    LET copied == { k \in DOMAIN addr_props :
                      Truthy(k) /\ Truthy(addr_props[k]) /\ k \notin DOMAIN props }
    IN [k \in (DOMAIN props) \cup copied |->
           IF k \in copied THEN addr_props[k] ELSE props[k]]

\* lines 104-106: for k, v in addr_props.items(): if k and v: properties[k] = v
ApplyAddressProps(props, addr_props) ==
    LET copied == { k \in DOMAIN addr_props : Truthy(k) /\ Truthy(addr_props[k]) }
    IN [k \in (DOMAIN props) \cup copied |->
           IF k \in copied THEN addr_props[k] ELSE props[k]]

RECURSIVE SumLens(_, _)
SumLens(p2a, S) ==
    IF S = {} THEN 0
    ELSE LET x == CHOOSE y \in S : TRUE
         IN Len(p2a[x]) + SumLens(p2a, S \ {x})

\* line 99: properties.get(parcel_id_field, properties.get("FID", idx))
ReportedParcelId(props, idx) ==
    IF parcel_id_field \in DOMAIN props THEN props[parcel_id_field]
    ELSE IF "FID" \in DOMAIN props THEN props["FID"]
    ELSE ToString(idx)

SjParcelFeatures ==
    { Feature([PIN |-> "p1", addr |-> "old"], Geom({1, 2})),
      Feature([PIN |-> "p2"], Geom({2, 3})),
      Feature([PIN |-> "p3", unit |-> "u0"], Geom({1, 3})),
      Feature([FID |-> "q"], Geom({1, 2})),
      Feature([PIN |-> "p4"], NoGeom) }

SjAddressFeatures ==
    { Feature([FID |-> "f1", addr |-> "a1"], Geom({2})),
      Feature([FID |-> "f2", addr |-> "", unit |-> "u2"], Geom({1})),
      Feature([FID |-> "f3", addr |-> "a3", PIN |-> None], Geom({2, 3})),
      Feature([addr |-> "a4"], Geom({4})),
      Feature([FID |-> "f5", addr |-> "a5"], NoGeom) }

InitSpatialJoin ==
    /\ pc = "index"
    /\ parcel_data \in SeqUpTo(SjParcelFeatures, MaxParcels)
    /\ address_data \in SeqUpTo(SjAddressFeatures, MaxAddresses)
    /\ parcel_data0 = parcel_data
    /\ result = << >>
    /\ error = NoError
    /\ SpatialIdle
    /\ StdIdle
    /\ ScrapeIdle
    /\ PipeIdle
    /\ JoinIdle

\* lines 54-71: index the parcels that have a geometry and build the tree
SJ_BuildIndex ==
    /\ pc = "index"
    /\ LET feats == IndexedFeatures(parcel_data, Len(parcel_data))
           geoms == [k \in 1..Len(feats) |-> parcel_data[feats[k]].geometry.cells]
       IN /\ parcel_features' = feats
          /\ parcel_geoms' = geoms
          /\ geom_wkt_to_idx' = WktToIdx(geoms, Len(geoms))
          /\ tree' \in TreeOrders(Len(geoms))
    /\ pc' = "match"
    /\ UNCHANGED << parcel_data, address_data, parcel_data0, result, error, addr_i,
                    parcel_to_addresses, unmatched_addresses,
                    total_matched_addresses, printed, joinVars, stdVars, scrapeVars, pipeVars >>

\* lines 74-92, one iteration for a secondary record that has a geometry
SJ_MatchAddress ==
    /\ pc = "match"
    /\ addr_i < Len(address_data)
    /\ address_data[addr_i + 1].geometry.present
    /\ LET addr_geom == address_data[addr_i + 1].geometry.cells
           candidates == TreeQuery(tree, parcel_geoms, addr_geom)
           targets == MatchTargets(candidates, geom_wkt_to_idx, addr_geom)
       IN /\ parcel_to_addresses' = AppendTo(parcel_to_addresses, targets, addr_i + 1)
          /\ unmatched_addresses' =
                IF targets = << >> THEN Append(unmatched_addresses, addr_i + 1)
                ELSE unmatched_addresses
    /\ addr_i' = addr_i + 1
    /\ UNCHANGED << pc, parcel_data, address_data, parcel_data0, result, error,
                    parcel_features, parcel_geoms, geom_wkt_to_idx, tree,
                    total_matched_addresses, printed, joinVars, stdVars, scrapeVars, pipeVars >>

\* line 75 for a secondary record whose geometry is None: shape(None) raises
SJ_AddressShapeRaises ==
    /\ pc = "match"
    /\ addr_i < Len(address_data)
    /\ ~address_data[addr_i + 1].geometry.present
    /\ error' = "AttributeError"
    /\ pc' = "error"
    /\ UNCHANGED << parcel_data, address_data, parcel_data0, result, spatialVars, joinVars, stdVars, scrapeVars, pipeVars >>

\* lines 95-113: apply the first matched address of every parcel, print the summary, return
SJ_ApplyAndReturn ==
    /\ pc = "match"
    /\ addr_i = Len(address_data)
    /\ LET matched == DOMAIN parcel_to_addresses
           target(i) == { idx \in matched : parcel_features[idx] = i }
           applied(i) ==
               IF target(i) = {} THEN parcel_data[i]
               ELSE LET idx == CHOOSE x \in target(i) : TRUE
                        a == address_data[AppliedAddress(parcel_to_addresses[idx])]
                    IN [parcel_data[i] EXCEPT
                          !.properties = ApplyAddressProps(@, a.properties)]
           updated == [i \in 1..Len(parcel_data) |-> applied(i)]
       IN /\ parcel_data' = updated
          /\ result' = updated
          /\ printed' =
                { [pid |-> ReportedParcelId(parcel_data[parcel_features[idx]].properties, idx),
                   addr_fids |-> [k \in 1..Len(parcel_to_addresses[idx]) |->
                       Get(address_data[parcel_to_addresses[idx][k]].properties,
                           address_id_field)]] :
                  idx \in { x \in matched : Len(parcel_to_addresses[x]) > 1 } }
          /\ total_matched_addresses' = SumLens(parcel_to_addresses, matched)
    /\ pc' = "done"
    /\ UNCHANGED << address_data, parcel_data0, error, parcel_features, parcel_geoms,
                    geom_wkt_to_idx, tree, addr_i, parcel_to_addresses,
                    unmatched_addresses, joinVars, stdVars, scrapeVars, pipeVars >>

NextSpatialJoin ==
    \/ SJ_BuildIndex
    \/ SJ_MatchAddress
    \/ SJ_AddressShapeRaises
    \/ SJ_ApplyAndReturn

SpecSpatialJoin == InitSpatialJoin /\ [][NextSpatialJoin]_vars

----------------------------------------------------------------------------
(* Claims about spatial_join *)

Range(seq) == { seq[k] : k \in 1..Len(seq) }

\* how often secondary record j sits in some parcel's list / in the unmatched list
TimesMatched(j) ==
    Cardinality({ << idx, k >> \in (DOMAIN parcel_to_addresses) \X (1..Len(address_data)) :
                    k <= Len(parcel_to_addresses[idx]) /\ parcel_to_addresses[idx][k] = j })

TimesUnmatched(j) ==
    Cardinality({ k \in 1..Len(unmatched_addresses) : unmatched_addresses[k] = j })

\* the secondary geometry lies inside the geometry of some primary record
InsideSomeParcel(j) ==
    /\ address_data[j].geometry.present
    /\ \E i \in 1..Len(parcel_data0) :
          /\ parcel_data0[i].geometry.present
          /\ Contains(parcel_data0[i].geometry.cells, address_data[j].geometry.cells)

\* out is inp with the non-empty attributes of a written over it
Folded(inp, a, out) ==
    /\ \A k \in DOMAIN a :
          (k /= "" /\ a[k] /= "" /\ a[k] /= None) => (k \in DOMAIN out /\ out[k] = a[k])
    /\ \A k \in DOMAIN inp :
          /\ k \in DOMAIN out
          /\ out[k] /= inp[k] => (k \in DOMAIN a /\ out[k] = a[k] /\ a[k] /= "" /\ a[k] /= None)
    /\ \A k \in DOMAIN out : k \in DOMAIN inp \/ (k \in DOMAIN a /\ out[k] = a[k])

\* C3: every processed secondary record is counted exactly once, as matched (in
\* one parcel's list) or as unmatched, never both and never neither; the matched
\* count printed at the end equals the number of secondary records minus the
\* unmatched count.
C3_MatchedPlusUnmatched ==
    /\ \A j \in 1..Len(address_data) :
          TimesMatched(j) + TimesUnmatched(j) = (IF j <= addr_i THEN 1 ELSE 0)
    /\ pc = "done" =>
          /\ addr_i = Len(address_data)
          /\ total_matched_addresses = Len(address_data) - Len(unmatched_addresses)

\* a finished join with a matched and an unmatched secondary record
C3_Witness ==
    /\ pc = "done"
    /\ total_matched_addresses >= 1
    /\ Len(unmatched_addresses) >= 1

\* C4: the parcel chosen for a secondary record is the first candidate, in the
\* order of the index, that contains it; only when no candidate contains it, the
\* first candidate that intersects it.
C4_ContainmentPreferred ==
    \A idx \in DOMAIN parcel_to_addresses :
        \A k \in 1..Len(parcel_to_addresses[idx]) :
            LET g == address_data[parcel_to_addresses[idx][k]].geometry.cells
                cands == TreeQuery(tree, parcel_geoms, g)
                containing == { c \in 1..Len(cands) : Contains(cands[c], g) }
                meeting == { c \in 1..Len(cands) : Intersects(cands[c], g) }
            IN IF containing /= {}
               THEN parcel_geoms[idx] = cands[CellMin(containing)]
               ELSE meeting /= {} /\ parcel_geoms[idx] = cands[CellMin(meeting)]

C7_NeverFailsOnMissingGeometry ==
    /\ pc /= "error"
    /\ \A k \in 1..Len(parcel_features) : parcel_data0[parcel_features[k]].geometry.present
    /\ \A j \in 1..Len(address_data) :
          ~address_data[j].geometry.present => TimesMatched(j) = 0

----------------------------------------------------------------------------
(* join_address_to_parcel: the cross-encoding join *)

\* the arguments counties.py passes (line 48)
parcel_key == "RWACCT"
address_key == "Account #"

\* a record of a line-delimited file: the object itself is the attribute mapping
Line(attrs) == [hasProps |-> FALSE, properties |-> attrs, geometry |-> NoGeom]

\* feature.get('properties', feature): the wrapper's mapping, else the object itself
PropsOrSelf(feature) == feature.properties

\* a lookup that falls back to None for an absent key, as dict.get does
HasKeyLenient(props, key) == TRUE

\* props[key] (lines 238 and 246) succeeds only for a present key, else KeyError
HasKey(props, key) == key \in DOMAIN props

\* address_lookup after the first n records (lines 236-239): no emptiness test
RECURSIVE AddressLookup(_, _)
AddressLookup(features, n) ==
    IF n = 0 THEN EmptyDict
    ELSE LET props == PropsOrSelf(features[n])
         IN Put(AddressLookup(features, n - 1), Get(props, address_key), props)

\* the merge of merge_by_id, keeping the key out: empty values are not copied
JoinMergedNonEmpty(props, address_props) ==
    LET copied == { k \in DOMAIN address_props :
                      k /= address_key /\ Truthy(k) /\ Truthy(address_props[k]) }
    IN [k \in (DOMAIN props) \cup copied |->
           IF k \in copied THEN address_props[k] ELSE props[k]]

\* lines 249-251: every address field except the key itself is assigned
JoinMerged(props, address_props) ==
    LET copied == (DOMAIN address_props) \ {address_key}
    IN [k \in (DOMAIN props) \cup copied |->
           IF k \in copied THEN address_props[k] ELSE props[k]]

\* one updated feature (lines 245-254)
JoinedFeature(feature, lookup) ==
    LET props == PropsOrSelf(feature)
        key == Get(props, parcel_key)
    IN IF key \in DOMAIN lookup
       THEN [feature EXCEPT !.properties = JoinMerged(props, lookup[key])]
       ELSE feature

JaParcelRecords ==
    { Feature([RWACCT |-> "a1", owner |-> "old"], Geom({1})),
      Feature([RWACCT |-> "a2"], Geom({2})),
      Line([RWACCT |-> "a1", owner |-> "old", city |-> "c0"]),
      Feature([RWACCT |-> "", owner |-> "old"], Geom({3})),
      Feature([owner |-> "old"], Geom({4})) }

JaAddressRecords ==
    { Line(("Account #" :> "a1") @@ [owner |-> "new", city |-> "c"]),
      Line(("Account #" :> "a1") @@ [owner |-> "", city |-> None]),
      Line(("Account #" :> "") @@ [owner |-> "x"]),
      Feature(("Account #" :> "a2") @@ [RWACCT |-> "zz"], NoGeom),
      Line([owner |-> "new"]) }

InitJoinAddress ==
    /\ pc = "load_address"
    /\ parcel_file_path \in {".geojson", ".jsonl"}
    /\ parcel_data \in SeqUpTo(JaParcelRecords, MaxParcels)
    /\ address_data \in SeqUpTo(JaAddressRecords, MaxAddresses)
    /\ parcel_data0 = parcel_data
    /\ result = << >>
    /\ out_type = ""
    /\ error = NoError
    /\ SpatialIdle
    /\ StdIdle
    /\ ScrapeIdle
    /\ PipeIdle

\* lines 233-239 when some secondary record lacks address_key
JA_AddressKeyError ==
    /\ pc = "load_address"
    /\ \E j \in 1..Len(address_data) : ~HasKey(PropsOrSelf(address_data[j]), address_key)
    /\ error' = "KeyError"
    /\ pc' = "error"
    /\ UNCHANGED << parcel_data, address_data, parcel_data0, result, spatialVars, joinVars, stdVars, scrapeVars, pipeVars >>

\* lines 233-239: the lookup is built from every secondary record
JA_BuildLookup ==
    /\ pc = "load_address"
    /\ \A j \in 1..Len(address_data) : HasKey(PropsOrSelf(address_data[j]), address_key)
    /\ pc' = "load_parcel"
    /\ UNCHANGED << parcel_data, address_data, parcel_data0, result, error,
                    spatialVars, joinVars, stdVars, scrapeVars, pipeVars >>

\* lines 242-246 when some primary record lacks parcel_key: nothing is written
JA_ParcelKeyError ==
    /\ pc = "load_parcel"
    /\ \E i \in 1..Len(parcel_data) : ~HasKey(PropsOrSelf(parcel_data[i]), parcel_key)
    /\ error' = "KeyError"
    /\ pc' = "error"
    /\ UNCHANGED << parcel_data, address_data, parcel_data0, result, spatialVars, joinVars, stdVars, scrapeVars, pipeVars >>

\* lines 242-270: merge every primary record and write the output document
JA_MergeAndWrite ==
    /\ pc = "load_parcel"
    /\ \A i \in 1..Len(parcel_data) : HasKey(PropsOrSelf(parcel_data[i]), parcel_key)
    /\ LET lookup == AddressLookup(address_data, Len(address_data))
           updated == [i \in 1..Len(parcel_data) |-> JoinedFeature(parcel_data[i], lookup)]
       IN /\ parcel_data' = updated
          /\ result' = updated
    /\ out_type' = IF parcel_file_path = ".geojson" THEN "FeatureCollection" ELSE "list"
    /\ pc' = "done"
    /\ UNCHANGED << address_data, parcel_data0, error, spatialVars, parcel_file_path, stdVars, scrapeVars, pipeVars >>

NextJoinAddress ==
    \/ JA_AddressKeyError
    \/ JA_BuildLookup
    \/ JA_ParcelKeyError
    \/ JA_MergeAndWrite

SpecJoinAddress == InitJoinAddress /\ [][NextJoinAddress]_vars

----------------------------------------------------------------------------
(* Claims about join_address_to_parcel *)

MissingJoinKey ==
    \/ \E j \in 1..Len(address_data) : address_key \notin DOMAIN address_data[j].properties
    \/ \E i \in 1..Len(parcel_data0) : parcel_key \notin DOMAIN parcel_data0[i].properties

\* positions of the secondary records whose join key value is v
AddressesWithKey(v) ==
    { j \in 1..Len(address_data) :
        /\ address_key \in DOMAIN address_data[j].properties
        /\ address_data[j].properties[address_key] = v }

\* C8: when a primary or secondary record lacks the join key, the join ends in a
\* KeyError and writes nothing; it never finishes with such a record skipped or
\* passed through.
C8_MissingKeyFails ==
    /\ pc = "done" => ~MissingJoinKey
    /\ (pc = "error") =>
          /\ MissingJoinKey
          /\ error = "KeyError"
          /\ result = << >>
          /\ out_type = ""
    /\ (MissingJoinKey /\ pc = "load_parcel") =>
          \E i \in 1..Len(parcel_data0) : parcel_key \notin DOMAIN parcel_data0[i].properties

\* the join failed on a primary record without the key after the lookup was built
C8_Witness ==
    /\ pc = "error"
    /\ error = "KeyError"
    /\ Len(address_data) > 0
    /\ \A j \in 1..Len(address_data) : address_key \in DOMAIN address_data[j].properties
    /\ \E i \in 1..Len(parcel_data0) : parcel_key \notin DOMAIN parcel_data0[i].properties

\* C9 as claimed: in a finished join an empty or None attribute of the matched
\* secondary record never replaces a value the primary record has, and a primary
\* record without a match keeps its attributes.
C9_ExactJoinSemantics ==
    pc = "done" =>
        \A i \in 1..Len(parcel_data0) :
            LET inp == parcel_data0[i].properties
                out == result[i].properties
                hits == AddressesWithKey(inp[parcel_key])
            IN IF hits = {} THEN out = inp
               ELSE LET sec == address_data[SetMax(hits)].properties
                    IN \A k \in (DOMAIN sec) \cap (DOMAIN inp) :
                          ~Truthy(sec[k]) => out[k] = inp[k]

\* C9 as amended: a matched primary record takes every attribute of the matched
\* secondary record (the last one carrying the key) except the secondary key
\* attribute, empty and None values included, and keeps its other attributes; a
\* primary record without a match keeps its attributes.
C9_CopiesAllButKey ==
    pc = "done" =>
        /\ Len(result) = Len(parcel_data0)
        /\ \A i \in 1..Len(parcel_data0) :
            LET inp == parcel_data0[i].properties
                out == result[i].properties
                hits == AddressesWithKey(inp[parcel_key])
            IN IF hits = {} THEN out = inp
               ELSE LET sec == address_data[SetMax(hits)].properties
                    IN /\ DOMAIN out = (DOMAIN inp) \cup ((DOMAIN sec) \ {address_key})
                       /\ \A k \in (DOMAIN sec) \ {address_key} : out[k] = sec[k]
                       /\ \A k \in (DOMAIN inp) \ ((DOMAIN sec) \ {address_key}) :
                             out[k] = inp[k]

\* a matched secondary record's empty value has replaced a non-empty primary
\* value, next to a primary record that found no match
C9_Witness ==
    /\ pc = "done"
    /\ \E i \in 1..Len(parcel_data0) :
          /\ AddressesWithKey(parcel_data0[i].properties[parcel_key]) /= {}
          /\ \E k \in DOMAIN parcel_data0[i].properties :
                /\ Truthy(parcel_data0[i].properties[k])
                /\ ~Truthy(result[i].properties[k])
    /\ \E i \in 1..Len(parcel_data0) :
          /\ AddressesWithKey(parcel_data0[i].properties[parcel_key]) = {}
          /\ result[i].properties = parcel_data0[i].properties

----------------------------------------------------------------------------
(* merge_by_pidn: the structured-text-derived join *)

(* In this operation a text is a sequence of one-character strings, so that   *)
(* strip, lower and the whitespace substitution act on characters; attribute  *)
(* keys and values are texts.  A description is the markup of the             *)
(* "description" attribute as html.parser reads it: a sequence of rows, each  *)
(* the sequence of the texts of its th/td cells.  It is kept in the feature's *)
(* description field, beside the other attributes.                            *)

IsSpace(c) == c = " "

\* str.lower on one character
LowerChar(c) ==
    CASE c = "P" -> "p"
      [] c = "I" -> "i"
      [] c = "D" -> "d"
      [] c = "N" -> "n"
      [] c = "A" -> "a"
      [] OTHER -> c

Lower(t) == [k \in 1..Len(t) |-> LowerChar(t[k])]

RECURSIVE LStrip(_)
LStrip(t) == IF t /= << >> /\ IsSpace(Head(t)) THEN LStrip(Tail(t)) ELSE t

RECURSIVE RStrip(_)
RStrip(t) ==
    IF t /= << >> /\ IsSpace(t[Len(t)]) THEN RStrip(SubSeq(t, 1, Len(t) - 1)) ELSE t

\* str.strip
Strip(t) == RStrip(LStrip(t))

\* re.sub(r"\s+", "_", t): each maximal run of whitespace becomes one underscore
RECURSIVE SubSpaces(_)
SubSpaces(t) ==
    IF t = << >> THEN << >>
    ELSE IF IsSpace(Head(t))
         THEN << "_" >> \o SubSpaces(LStrip(t))
         ELSE << Head(t) >> \o SubSpaces(Tail(t))

\* line 209: the normalized key of a label cell
NormalizedKey(label) == SubSpaces(Lower(Strip(label)))

\* the first row carrying a label wins: a later row with the same label is dropped
RECURSIVE ExtractRowsKeepFirst(_, _)
ExtractRowsKeepFirst(rows, n) ==
    IF n = 0 THEN EmptyDict
    ELSE LET prev == ExtractRowsKeepFirst(rows, n - 1)
             cells == rows[n]
         IN IF Len(cells) = 2 /\ NormalizedKey(cells[1]) \notin DOMAIN prev
            THEN Put(prev, NormalizedKey(cells[1]), Strip(cells[2]))
            ELSE prev

\* _extract_properties_from_description over the first n rows (lines 203-212)
RECURSIVE ExtractRows(_, _)
ExtractRows(rows, n) ==
    IF n = 0 THEN EmptyDict
    ELSE LET prev == ExtractRows(rows, n - 1)
             cells == rows[n]
         IN IF Len(cells) = 2
            THEN Put(prev, NormalizedKey(cells[1]), Strip(cells[2]))
            ELSE prev

ExtractProperties(description) == ExtractRows(description, Len(description))

PIDN == << "p", "i", "d", "n" >>

\* parsed_properties.get("pidn", "").strip()
PidnOf(parsed) == IF PIDN \in DOMAIN parsed THEN Strip(parsed[PIDN]) ELSE << >>

\* address_lookup after the first n secondary records (lines 120-126)
RECURSIVE PidnLookup(_, _)
PidnLookup(features, n) ==
    IF n = 0 THEN EmptyDict
    ELSE LET prev == PidnLookup(features, n - 1)
             parsed == ExtractProperties(features[n].description)
             pidn == PidnOf(parsed)
         IN IF pidn /= << >> THEN Put(prev, pidn, parsed) ELSE prev

\* "for k, v in parsed.items(): if k and v: properties[k] = v" (lines 141-143, 150-152)
WriteParsed(properties, parsed) ==
    LET copied == { k \in DOMAIN parsed : k /= << >> /\ parsed[k] /= << >> }
    IN [k \in (DOMAIN properties) \cup copied |->
           IF k \in copied THEN parsed[k] ELSE properties[k]]

\* only the key of the matched address record is written to the parcel
PidnPropertiesKeyOnly(feature, lookup) ==
    LET parsed == ExtractProperties(feature.description)
        own == WriteParsed(feature.properties, parsed)
        pidn == PidnOf(parsed)
    IN IF pidn /= << >> /\ pidn \in DOMAIN lookup
       THEN Put(own, PIDN, lookup[pidn][PIDN])
       ELSE own

\* the properties of one updated feature (lines 136-153)
PidnProperties(feature, lookup) ==
    LET parsed == ExtractProperties(feature.description)
        own == WriteParsed(feature.properties, parsed)
        pidn == PidnOf(parsed)
    IN IF pidn /= << >> /\ pidn \in DOMAIN lookup
       THEN WriteParsed(own, lookup[pidn])
       ELSE own

PidnFeature(id, props, description, geom) ==
    [id |-> id, properties |-> props, description |-> description, geometry |-> geom]

\* updated_features
MergeByPidnResult(parcels, addresses) ==
    LET lookup == PidnLookup(addresses, Len(addresses))
    IN [i \in 1..Len(parcels) |->
           PidnFeature(parcels[i].id, PidnProperties(parcels[i], lookup),
                       parcels[i].description, parcels[i].geometry)]

Row(label, value) == << label, value >>

PidnParcelDescriptions ==
    { << Row(<< "P", "I", "D", "N" >>, << "1" >>), Row(<< "z" >>, << "x" >>) >>,
      << Row(<< "p", "i", "d", "n", " " >>, << "2" >>),
         Row(<< "A", " ", " ", "b" >>, << "y" >>),
         Row(<< "z" >>, << " " >>) >>,
      << Row(<< "z" >>, << "x" >>), << << "z" >>, << "y" >>, << "x" >> >> >>,
      << >> }

PidnAddressDescriptions ==
    { << Row(<< "P", "i", "d", "n" >>, << " ", "1" >>),
         Row(<< "z" >>, << "y" >>),
         Row(<< " ", "a", " ", "B" >>, << "x" >>) >>,
      << Row(PIDN, << "1" >>), Row(<< "z" >>, << >>), Row(<< " " >>, << "x" >>) >>,
      << Row(PIDN, << "2" >>), Row(<< "z" >>, << "y" >>) >>,
      << Row(PIDN, << " " >>), Row(<< "z" >>, << "y" >>) >>,
      << >> }

PidnParcelFeatures ==
    { PidnFeature("p", props, d, Geom({1})) :
        props \in { EmptyDict, << "z" >> :> << "r" >> }, d \in PidnParcelDescriptions }

PidnAddressFeatures ==
    { PidnFeature("a", EmptyDict, d, Geom({1})) : d \in PidnAddressDescriptions }

InitMergeByPidn ==
    /\ pc = "merge_by_pidn"
    /\ parcel_data \in SeqUpTo(PidnParcelFeatures, MaxParcels)
    /\ address_data \in SeqUpTo(PidnAddressFeatures, MaxAddresses)
    /\ parcel_data0 = parcel_data
    /\ result = << >>
    /\ error = NoError
    /\ SpatialIdle
    /\ StdIdle
    /\ ScrapeIdle
    /\ PipeIdle
    /\ JoinIdle

merge_by_pidn ==
    /\ pc = "merge_by_pidn"
    /\ result' = MergeByPidnResult(parcel_data, address_data)
    /\ pc' = "done"
    /\ UNCHANGED << parcel_data, address_data, parcel_data0, error, spatialVars, joinVars, stdVars, scrapeVars, pipeVars >>

NextMergeByPidn == merge_by_pidn

SpecMergeByPidn == InitMergeByPidn /\ [][NextMergeByPidn]_vars

----------------------------------------------------------------------------
(* Claims about merge_by_pidn *)

DerivedKey(feature) == PidnOf(ExtractProperties(feature.description))

\* positions of the secondary records whose derived key is v
AddressesWithPidn(v) ==
    { j \in 1..Len(address_data) : DerivedKey(address_data[j]) = v }

\* C10 as claimed: a primary record whose derived key equals that of a secondary
\* record leaves with every attribute derived from that secondary's description,
\* with the secondary's value, and with every attribute derived from its own
\* description that the secondary does not override.
C10_AllDerivedMerged ==
    pc = "done" =>
        \A i \in 1..Len(parcel_data0) : \A j \in 1..Len(address_data) :
            (DerivedKey(parcel_data0[i]) /= << >>
               /\ DerivedKey(parcel_data0[i]) = DerivedKey(address_data[j])) =>
                LET sec == ExtractProperties(address_data[j].description)
                    own == ExtractProperties(parcel_data0[i].description)
                    out == result[i].properties
                IN /\ \A k \in DOMAIN sec : k \in DOMAIN out /\ out[k] = sec[k]
                   /\ \A k \in (DOMAIN own) \ (DOMAIN sec) :
                         k \in DOMAIN out /\ out[k] = own[k]

\* C10 as amended: with the last secondary record carrying the primary's
\* non-empty derived key, every derived attribute of that secondary with a
\* non-empty label and value is in the output with the secondary's value, and
\* every such attribute of the primary's own description is in the output with
\* its own value unless a non-empty secondary attribute replaces it.
C10_NonEmptyDerivedMerged ==
    pc = "done" =>
        /\ Len(result) = Len(parcel_data0)
        /\ \A i \in 1..Len(parcel_data0) :
            LET own == ExtractProperties(parcel_data0[i].description)
                out == result[i].properties
                hits == AddressesWithPidn(DerivedKey(parcel_data0[i]))
                sec == IF DerivedKey(parcel_data0[i]) /= << >> /\ hits /= {}
                       THEN ExtractProperties(address_data[SetMax(hits)].description)
                       ELSE EmptyDict
                given == { k \in DOMAIN sec : k /= << >> /\ sec[k] /= << >> }
            IN /\ \A k \in given : k \in DOMAIN out /\ out[k] = sec[k]
               /\ \A k \in (DOMAIN own) \ given :
                     (k /= << >> /\ own[k] /= << >>) => (k \in DOMAIN out /\ out[k] = own[k])

\* a matched parcel took a non-key attribute from the address description and
\* kept one of its own
C10_Witness ==
    /\ pc = "done"
    /\ \E i \in 1..Len(parcel_data0) :
          LET own == ExtractProperties(parcel_data0[i].description)
              hits == AddressesWithPidn(DerivedKey(parcel_data0[i]))
          IN /\ DerivedKey(parcel_data0[i]) /= << >>
             /\ hits /= {}
             /\ LET sec == ExtractProperties(address_data[SetMax(hits)].description)
                IN /\ \E k \in (DOMAIN sec) \ {PIDN} :
                         /\ sec[k] /= << >>
                         /\ k \in DOMAIN own
                         /\ own[k] /= sec[k]
                         /\ result[i].properties[k] = sec[k]
                   /\ \E k \in (DOMAIN own) \ (DOMAIN sec) :
                         own[k] /= << >> /\ result[i].properties[k] = own[k]

----------------------------------------------------------------------------
(* _extract_properties_from_description on its own *)

\* most rows of one markup text
MaxRows == 3

\* rows as html.parser yields them: the texts of the th/td cells of each tr
ExtractInputRows ==
    { Row(<< "P", "I", "D", "N" >>, << "1" >>),
      Row(<< " ", "p", "i", "d", "n" >>, << " ", "2", " " >>),
      Row(<< "A", " ", " ", "b" >>, << "y" >>),
      Row(<< "z" >>, << >>),
      << << "z" >> >>,
      << << "z" >>, << "y" >>, << "x" >> >>,
      << >> }

InitExtract ==
    /\ pc = "extract"
    /\ html_string \in SeqUpTo(ExtractInputRows, MaxRows)
    /\ result = << >>
    /\ error = NoError
    /\ geojson_data = << >>
    /\ geojson_data0 = << >>
    /\ once = << >>
    /\ detected_crs = ""
    /\ county_name = << >>
    /\ config = << >>
    /\ standardized_features = << >>
    /\ calls = << >>
    /\ MergerIdle
    /\ ScrapeIdle
    /\ PipeIdle

\* lines 201-212
extract_properties_from_description ==
    /\ pc = "extract"
    /\ result' = ExtractProperties(html_string)
    /\ pc' = "done"
    /\ UNCHANGED << error, mergerVars, stdVars, scrapeVars, pipeVars >>

NextExtract == extract_properties_from_description

SpecExtract == InitExtract /\ [][NextExtract]_vars

----------------------------------------------------------------------------
(* Claims about _extract_properties_from_description *)

\* positions of the rows with exactly two cells
TwoCellRows == { n \in 1..Len(html_string) : Len(html_string[n]) = 2 }

\* the label of row n, trimmed, lower-cased, whitespace runs as one underscore
LabelKey(n) == NormalizedKey(html_string[n][1])

\* a normalized label: no whitespace, no upper-case letter left
IsNormalized(key) ==
    \A k \in 1..Len(key) : ~IsSpace(key[k]) /\ LowerChar(key[k]) = key[k]

\* a trimmed value: no whitespace at either end
IsTrimmed(value) ==
    value = << >> \/ (~IsSpace(value[1]) /\ ~IsSpace(value[Len(value)]))

\* C11 as claimed: the extractor never raises and returns a mapping holding
\* exactly one entry per label/value row, keyed by the row's normalized label with
\* the row's trimmed value; rows of any other shape contribute no entry.
C11_OneEntryPerRow ==
    pc = "done" =>
        /\ error = NoError
        /\ Cardinality(DOMAIN result) = Cardinality(TwoCellRows)
        /\ \A n \in TwoCellRows :
              /\ LabelKey(n) \in DOMAIN result
              /\ result[LabelKey(n)] = Strip(html_string[n][2])
        /\ \A key \in DOMAIN result : \E n \in TwoCellRows : key = LabelKey(n)

\* C11 as amended: the extractor never raises and returns a mapping holding one
\* entry per distinct normalized label among the rows with exactly two cells,
\* keyed by that label (no whitespace, no upper case) with the trimmed value of
\* the last such row, an empty value included; rows with any other number of
\* cells contribute no entry.
C11_LastRowPerLabel ==
    pc = "done" =>
        /\ error = NoError
        /\ DOMAIN result = { LabelKey(n) : n \in TwoCellRows }
        /\ \A key \in DOMAIN result :
              LET last == SetMax({ n \in TwoCellRows : LabelKey(n) = key })
              IN /\ IsNormalized(key)
                 /\ result[key] = Strip(html_string[last][2])
                 /\ IsTrimmed(result[key])

\* two rows with the same normalized label and different values, a row with an
\* empty value cell and a row of another shape were extracted
C11_Witness ==
    /\ pc = "done"
    /\ \E m, n \in TwoCellRows :
          /\ m < n
          /\ LabelKey(m) = LabelKey(n)
          /\ html_string[m][1] /= html_string[n][1]
          /\ Strip(html_string[m][2]) /= Strip(html_string[n][2])
          /\ result[LabelKey(n)] = << "2" >>
    /\ \E n \in 1..Len(html_string) : Len(html_string[n]) /= 2
    /\ Cardinality(DOMAIN result) = 1

----------------------------------------------------------------------------
(* DataStandardizer (src/downloading_and_geojson_processing/data_standardizer.py) *)

(* A record set is a record [crs, features].  crs is the "crs" member:        *)
(* kind "absent" (no such key), "dict" (an object; name is the text at        *)
(* properties.name, empty when that path is missing, NoneT when it is null)   *)
(* or "notdict" (null or a non-object).  A geometry is a record [present,     *)
(* hasCoords, type, coordinates]: present = FALSE is a null geometry,         *)
(* hasCoords tells whether the "coordinates" key exists, and coordinates is   *)
(* the nested sequence GeoJSON prescribes for the type, ordinates being       *)
(* integers.                                                                  *)

\* longest record set handed to the standardizer
MaxFeatures == 2

\* None among texts
NoneT == << "<None>" >>

\* "pat in t" for texts
IsSubstring(pat, t) ==
    \E i \in 1..(Len(t) - Len(pat) + 1) : SubSeq(t, i, i + Len(pat) - 1) = pat

NullGeometry == [present |-> FALSE, hasCoords |-> FALSE, type |-> "", coordinates |-> << >>]
Geometry(type, coordinates) ==
    [present |-> TRUE, hasCoords |-> TRUE, type |-> type, coordinates |-> coordinates]
GeometryNoCoords(type) ==
    [present |-> TRUE, hasCoords |-> FALSE, type |-> type, coordinates |-> << >>]

NoCrs == [kind |-> "absent", name |-> << >>]
NamedCrs(name) == [kind |-> "dict", name |-> name]
NotDictCrs == [kind |-> "notdict", name |-> << >>]

GeoJson(crs, features) == [crs |-> crs, features |-> features]

CrsIds == { "EPSG:4326", "EPSG:3739", "EPSG:3738" }

\* lines 39-47: the CRS named by the metadata, "" when the name is not recognized
CrsFromMetadata(crs) ==
    IF crs.kind = "notdict" THEN "AttributeError"
    ELSE IF crs.name = NoneT THEN "TypeError"
    ELSE IF IsSubstring(<< "3", "7", "3", "8" >>, crs.name) THEN "EPSG:3738"
    ELSE IF \/ IsSubstring(<< "E", "P", "S", "G", ":", "3", "7", "3", "9" >>, crs.name)
            \/ IsSubstring(<< "E", "P", "S", "G", ":", "2", "6", "7", "7" >>, crs.name)
         THEN "EPSG:3739"
    ELSE IF IsSubstring(<< "E", "P", "S", "G", ":", "4", "3", "2", "6" >>, crs.name) THEN "EPSG:4326"
    ELSE ""

\* line 54: the test of the first-valid-feature loop
HasCoordinates(feature) ==
    /\ feature.geometry.present
    /\ feature.geometry.hasCoords
    /\ Len(feature.geometry.coordinates) > 0

\* lines 51-56: position of the first feature with coordinates, 0 when there is none
FirstValidFeature(features) ==
    IF \E i \in 1..Len(features) : HasCoordinates(features[i])
    THEN CHOOSE i \in 1..Len(features) :
            /\ HasCoordinates(features[i])
            /\ \A j \in 1..(i - 1) : ~HasCoordinates(features[j])
    ELSE 0

\* lines 64-70: [raised, coords]; coords is << >> when the code leaves it None
FirstCoordinate(geometry) ==
    LET c == geometry.coordinates
    IN IF geometry.type = "Polygon"
       THEN IF Len(c[1]) = 0 THEN [raised |-> TRUE, coords |-> << >>]
            ELSE [raised |-> FALSE, coords |-> c[1][1]]
       ELSE IF geometry.type = "MultiPolygon"
       THEN IF Len(c[1]) = 0 \/ Len(c[1][1]) = 0 THEN [raised |-> TRUE, coords |-> << >>]
            ELSE [raised |-> FALSE, coords |-> c[1][1][1]]
       ELSE [raised |-> FALSE, coords |-> << >>]

\* the range test answers the state-plane system
CrsOfPointWrongAnswer(x, y) ==
    IF -180 <= x /\ x <= 180 /\ -90 <= y /\ y <= 90 THEN "EPSG:3739"
    ELSE IF x > 1000000 \/ y > 1000000 THEN "EPSG:3739"
    ELSE "EPSG:4326"

\* lines 78-86
CrsOfPoint(x, y) ==
    IF -180 <= x /\ x <= 180 /\ -90 <= y /\ y <= 90 THEN "EPSG:4326"
    ELSE IF x > 1000000 \/ y > 1000000 THEN "EPSG:3739"
    ELSE "EPSG:4326"

\* lines 49-86: detection from the first geometry
CrsFromCoordinates(features) ==
    LET i == FirstValidFeature(features)
    IN IF i = 0 THEN "EPSG:4326"
       ELSE LET first == FirstCoordinate(features[i].geometry)
            IN IF first.raised THEN "IndexError"
               ELSE IF Len(first.coords) = 0 THEN "EPSG:4326"
               ELSE IF Len(first.coords) < 2 THEN "IndexError"
               ELSE CrsOfPoint(first.coords[1], first.coords[2])

\* detect_coordinate_system (lines 33-86): a CRS identifier or the exception raised
DetectCoordinateSystem(data) ==
    IF Len(data.features) = 0 THEN "EPSG:4326"
    ELSE LET named == IF data.crs.kind = "absent" THEN "" ELSE CrsFromMetadata(data.crs)
         IN IF named /= "" THEN named ELSE CrsFromCoordinates(data.features)

\* coordinate tuples of the inputs
Wgs == << -110, 43 >>
Wgs3 == << -110, 43, 1900 >>
Plane == << 2400000, 1300000 >>
Plane3 == << 2400000, 1300000, 1900 >>
NegPlane == << -2400000, 500 >>
Mid == << 500000, 400000 >>

DetectGeometries ==
    { NullGeometry,
      GeometryNoCoords("Polygon"),
      Geometry("Polygon", << >>),
      Geometry("Polygon", << << >> >>),
      Geometry("Polygon", << << << >> >> >>),
      Geometry("Polygon", << << << 5 >> >> >>),
      Geometry("Polygon", << << Wgs, Wgs3 >> >>),
      Geometry("Polygon", << << Plane3, Plane >> >>),
      Geometry("Polygon", << << NegPlane >> >>),
      Geometry("Polygon", << << Mid >> >>),
      Geometry("MultiPolygon", << << >> >>),
      Geometry("MultiPolygon", << << << Plane >> >> >>),
      Geometry("MultiPolygon", << << << Wgs >> >>, << << Plane >> >> >>),
      Geometry("Point", Plane),
      Geometry("Point", Wgs) }

DetectFeatures == { Feature(EmptyDict, g) : g \in DetectGeometries }

DetectCrsMetadata ==
    { NoCrs,
      NotDictCrs,
      NamedCrs(NoneT),
      NamedCrs(<< >>),
      NamedCrs(<< "u", "r", "n", ":", "o", "g", "c", ":", "d", "e", "f", ":", "c", "r", "s", ":", "E", "P", "S", "G", ":", ":", "3", "7", "3", "8" >>),
      NamedCrs(<< "E", "P", "S", "G", ":", "3", "7", "3", "9" >>),
      NamedCrs(<< "E", "P", "S", "G", ":", "2", "6", "7", "7" >>),
      NamedCrs(<< "E", "P", "S", "G", ":", "4", "3", "2", "6" >>),
      NamedCrs(<< "u", "r", "n", ":", "o", "g", "c", ":", "d", "e", "f", ":", "c", "r", "s", ":", "O", "G", "C", ":", "1", ".", "3", ":", "C", "R", "S", "8", "4" >>) }

\* what every operation on a record set starts from
StdStart ==
    /\ geojson_data0 = geojson_data
    /\ once = << >>
    /\ detected_crs = ""
    /\ standardized_features = << >>
    /\ calls = << >>
    /\ result = << >>
    /\ error = NoError
    /\ html_string = << >>
    /\ MergerIdle
    /\ ScrapeIdle
    /\ PipeIdle

InitDetect ==
    /\ pc = "detect"
    /\ geojson_data \in { GeoJson(crs, features) :
                             crs \in DetectCrsMetadata,
                             features \in SeqUpTo(DetectFeatures, MaxFeatures) }
    /\ county_name = << >>
    /\ config = << >>
    /\ StdStart

\* detect_coordinate_system returns
DC_Return ==
    /\ pc = "detect"
    /\ DetectCoordinateSystem(geojson_data) \in CrsIds
    /\ detected_crs' = DetectCoordinateSystem(geojson_data)
    /\ pc' = "done"
    /\ UNCHANGED << result, error, mergerVars, html_string, geojson_data, geojson_data0,
                    once, county_name, config, standardized_features, calls, scrapeVars, pipeVars >>

\* detect_coordinate_system raises
DC_Raise ==
    /\ pc = "detect"
    /\ DetectCoordinateSystem(geojson_data) \notin CrsIds
    /\ error' = DetectCoordinateSystem(geojson_data)
    /\ pc' = "error"
    /\ UNCHANGED << result, mergerVars, stdVars, scrapeVars, pipeVars >>

NextDetect ==
    \/ DC_Return
    \/ DC_Raise

SpecDetect == InitDetect /\ [][NextDetect]_vars

----------------------------------------------------------------------------
(* Claims about detect_coordinate_system *)

Abs(n) == IF n < 0 THEN -n ELSE n

\* detection has ended, by a return or by an exception
DetectEnded == pc \in { "done", "error" }

\* the record set has a geometry with coordinates
HasFirstGeometry == \E i \in 1..Len(geojson_data.features) : HasCoordinates(geojson_data.features[i])

\* the first geometry with coordinates of the record set
FirstGeometry == geojson_data.features[FirstValidFeature(geojson_data.features)].geometry

\* the geometry has a first coordinate tuple with at least two ordinates
HasFirstTuple(g) ==
    CASE g.type = "Point" -> Len(g.coordinates) >= 2
      [] g.type = "Polygon" -> Len(g.coordinates[1]) > 0 /\ Len(g.coordinates[1][1]) >= 2
      [] g.type = "MultiPolygon" ->
            /\ Len(g.coordinates[1]) > 0
            /\ Len(g.coordinates[1][1]) > 0
            /\ Len(g.coordinates[1][1][1]) >= 2
      [] OTHER -> FALSE

\* the first coordinate tuple of a geometry, by its GeoJSON type
FirstTuple(g) ==
    CASE g.type = "Point" -> g.coordinates
      [] g.type = "Polygon" -> g.coordinates[1][1]
      [] g.type = "MultiPolygon" -> g.coordinates[1][1][1]

\* C12: when the record set has no explicit CRS metadata and the first tuple of
\* its first geometry with coordinates (Point, Polygon or MultiPolygon) has an
\* ordinate of magnitude above 1,000,000, positive or negative, detection returns
\* a state-plane system.
C12_LargeMagnitudeIsStatePlane ==
    (/\ DetectEnded
     /\ geojson_data.crs.kind = "absent"
     /\ HasFirstGeometry
     /\ HasFirstTuple(FirstGeometry)
     /\ \E k \in 1..2 : Abs(FirstTuple(FirstGeometry)[k]) > 1000000)
    => (pc = "done" /\ detected_crs \in { "EPSG:3739", "EPSG:3738" })

\* C13 as claimed: when both ordinates of the first tuple of the first geometry
\* with coordinates lie in [-180,180] x [-90,90], detection returns EPSG:4326.
C13_InRangeIsGeographic ==
    (/\ DetectEnded
     /\ HasFirstGeometry
     /\ HasFirstTuple(FirstGeometry)
     /\ Abs(FirstTuple(FirstGeometry)[1]) <= 180
     /\ Abs(FirstTuple(FirstGeometry)[2]) <= 90)
    => (pc = "done" /\ detected_crs = "EPSG:4326")

\* the metadata is absent, or an object whose name holds no state-plane identifier
NoStatePlaneMetadata ==
    \/ geojson_data.crs.kind = "absent"
    \/ /\ geojson_data.crs.kind = "dict"
       /\ geojson_data.crs.name /= NoneT
       /\ ~IsSubstring(<< "3", "7", "3", "8" >>, geojson_data.crs.name)
       /\ ~IsSubstring(<< "E", "P", "S", "G", ":", "3", "7", "3", "9" >>, geojson_data.crs.name)
       /\ ~IsSubstring(<< "E", "P", "S", "G", ":", "2", "6", "7", "7" >>, geojson_data.crs.name)

\* C13 as amended: when the CRS metadata is absent or names no state-plane
\* identifier and both ordinates of the first tuple of the first geometry with
\* coordinates lie in [-180,180] x [-90,90], detection returns EPSG:4326; metadata
\* naming a state-plane identifier decides the answer whatever the ordinates.
C13_InRangeWithoutStatePlaneMetadata ==
    /\ (/\ DetectEnded
        /\ NoStatePlaneMetadata
        /\ HasFirstGeometry
        /\ HasFirstTuple(FirstGeometry)
        /\ Abs(FirstTuple(FirstGeometry)[1]) <= 180
        /\ Abs(FirstTuple(FirstGeometry)[2]) <= 90)
       => (pc = "done" /\ detected_crs = "EPSG:4326")
    /\ (/\ DetectEnded
        /\ geojson_data.crs.kind = "dict"
        /\ geojson_data.crs.name /= NoneT
        /\ ~NoStatePlaneMetadata
        /\ Len(geojson_data.features) > 0)
       => (pc = "done" /\ detected_crs \in { "EPSG:3739", "EPSG:3738" })

\* detection returned EPSG:4326 for an in-range Polygon under unrecognized metadata
C13_Witness ==
    /\ pc = "done"
    /\ detected_crs = "EPSG:4326"
    /\ geojson_data.crs.kind = "dict"
    /\ geojson_data.crs.name \notin { << >>, NoneT, << "E", "P", "S", "G", ":", "4", "3", "2", "6" >> }
    /\ NoStatePlaneMetadata
    /\ HasFirstGeometry
    /\ FirstGeometry.type = "Polygon"
    /\ HasFirstTuple(FirstGeometry)
    /\ Abs(FirstTuple(FirstGeometry)[1]) <= 180
    /\ Abs(FirstTuple(FirstGeometry)[2]) <= 90

\* C14: detection never raises; for every record set (no features, null
\* geometries, empty coordinate lists or rings, unrecognized or malformed
\* metadata) it returns a CRS identifier, EPSG:4326 when nothing decides.
C14_DetectNeverFails ==
    /\ pc /= "error"
    /\ pc = "done" => detected_crs \in CrsIds
    /\ (pc = "done" /\ geojson_data.crs.kind = "absent" /\ ~HasFirstGeometry)
          => detected_crs = "EPSG:4326"

----------------------------------------------------------------------------
(* convert_to_2d_coordinates *)

\* a tuple with two or more ordinates loses its last one
TruncateCoordDropLast(coord) ==
    IF Len(coord) >= 2 THEN SubSeq(coord, 1, Len(coord) - 1) ELSE coord

\* lines 104-105 and 111-112
TruncateCoord(coord) ==
    IF Len(coord) > 2 THEN << coord[1], coord[2] >> ELSE coord

\* lines 103-105 and 110-112: the loop over one ring
ConvertRing(ring) == [i \in 1..Len(ring) |-> TruncateCoord(ring[i])]

\* lines 102-105: the loop over the rings of one polygon
ConvertPolygon(rings) == [r \in 1..Len(rings) |-> ConvertRing(rings[r])]

\* lines 95-112: what the pass does to one geometry
ConvertGeometry(g) ==
    IF g.present /\ g.hasCoords
    THEN IF g.type = "Polygon"
         THEN [g EXCEPT !.coordinates = ConvertPolygon(g.coordinates)]
         ELSE IF g.type = "MultiPolygon"
         THEN [g EXCEPT !.coordinates =
                  [q \in 1..Len(g.coordinates) |-> ConvertPolygon(g.coordinates[q])]]
         ELSE g
    ELSE g

\* convert_to_2d_coordinates (lines 88-115): the record set after the in-place pass
ConvertTo2D(data) ==
    [data EXCEPT !.features =
        [i \in 1..Len(data.features) |->
            [data.features[i] EXCEPT !.geometry = ConvertGeometry(data.features[i].geometry)]]]

ConvertGeometries ==
    { NullGeometry,
      GeometryNoCoords("Polygon"),
      Geometry("Polygon", << >>),
      Geometry("Polygon", << << Wgs3, Wgs, Plane3 >> >>),
      Geometry("Polygon", << << Plane3, Plane >>, << << 1, 2, 3, 4 >>, << 5 >> >> >>),
      Geometry("MultiPolygon", << << << Plane3 >> >>, << << Wgs >>, << Wgs3, Wgs3 >> >> >>),
      Geometry("MultiPolygon", << << << Wgs >> >> >>),
      Geometry("Point", Wgs3),
      Geometry("Point", Wgs) }

ConvertFeatures ==
    { Feature(props, g) : props \in { EmptyDict, [owner |-> "o"] }, g \in ConvertGeometries }

InitConvert ==
    /\ pc = "convert"
    /\ geojson_data \in { GeoJson(NoCrs, features) :
                             features \in SeqUpTo(ConvertFeatures, MaxFeatures) }
    /\ county_name = << >>
    /\ config = << >>
    /\ StdStart

\* lines 88-115, applied to a record set and then to its own result
convert_to_2d_coordinates ==
    /\ pc \in { "convert", "once" }
    /\ geojson_data' = ConvertTo2D(geojson_data)
    /\ once' = IF pc = "convert" THEN ConvertTo2D(geojson_data) ELSE once
    /\ pc' = IF pc = "convert" THEN "once" ELSE "twice"
    /\ UNCHANGED << result, error, mergerVars, html_string, geojson_data0, detected_crs,
                    county_name, config, standardized_features, calls, scrapeVars, pipeVars >>

NextConvert == convert_to_2d_coordinates

SpecConvert == InitConvert /\ [][NextConvert]_vars

----------------------------------------------------------------------------
(* Claims about convert_to_2d_coordinates *)

\* the pass has been applied at least once
Converted == pc \in { "once", "twice" }

\* every ordinate the tuple after the pass has is the one the tuple before had
IsPrefix(after, before) ==
    /\ Len(after) <= Len(before)
    /\ \A k \in 1..Len(after) : after[k] = before[k]

\* two rings with the same number of tuples, each tuple a prefix of its original
SameRing(after, before) ==
    /\ Len(after) = Len(before)
    /\ \A i \in 1..Len(after) : IsPrefix(after[i], before[i])

SamePolygon(after, before) ==
    /\ Len(after) = Len(before)
    /\ \A r \in 1..Len(after) : SameRing(after[r], before[r])

\* same type and the same nesting of parts, rings and tuples
SameNesting(after, before) ==
    /\ after.present = before.present
    /\ after.hasCoords = before.hasCoords
    /\ after.type = before.type
    /\ CASE after.type = "Polygon" -> SamePolygon(after.coordinates, before.coordinates)
         [] after.type = "MultiPolygon" ->
               /\ Len(after.coordinates) = Len(before.coordinates)
               /\ \A q \in 1..Len(after.coordinates) :
                     SamePolygon(after.coordinates[q], before.coordinates[q])
         [] after.type = "Point" -> IsPrefix(after.coordinates, before.coordinates)
         [] OTHER -> after.coordinates = before.coordinates

\* C15: applying the pass twice yields the record set that applying it once
\* yields, and the pass keeps the number and order of the features, their
\* attributes and the nesting of parts and rings of every geometry.
C15_StripIdempotent ==
    /\ pc = "twice" => geojson_data = once
    /\ Converted =>
          /\ Len(geojson_data.features) = Len(geojson_data0.features)
          /\ geojson_data.crs = geojson_data0.crs
          /\ \A i \in 1..Len(geojson_data0.features) :
                /\ geojson_data.features[i].hasProps = geojson_data0.features[i].hasProps
                /\ geojson_data.features[i].properties = geojson_data0.features[i].properties
                /\ SameNesting(geojson_data.features[i].geometry,
                               geojson_data0.features[i].geometry)

\* the pass ran twice on two features, the first application having cut tuples of
\* a Polygon and of a MultiPolygon
C15_Witness ==
    /\ pc = "twice"
    /\ Len(geojson_data0.features) = 2
    /\ geojson_data0.features[1].geometry.type = "Polygon"
    /\ geojson_data0.features[2].geometry.type = "MultiPolygon"
    /\ once.features[1] /= geojson_data0.features[1]
    /\ once.features[2] /= geojson_data0.features[2]
    /\ geojson_data0.features[1].properties /= geojson_data0.features[2].properties

RingTuples(ring) == { ring[i] : i \in 1..Len(ring) }

PolygonTuples(rings) == UNION { RingTuples(rings[r]) : r \in 1..Len(rings) }

\* the coordinate tuples of a geometry
TuplesOf(g) ==
    IF ~(g.present /\ g.hasCoords) THEN {}
    ELSE CASE g.type = "Point" -> { g.coordinates }
           [] g.type = "Polygon" -> PolygonTuples(g.coordinates)
           [] g.type = "MultiPolygon" ->
                 UNION { PolygonTuples(g.coordinates[q]) : q \in 1..Len(g.coordinates) }
           [] OTHER -> {}

\* C16: after the pass no coordinate tuple of any geometry of the record set,
\* Point, Polygon or MultiPolygon, has three or more ordinates.
C16_NoThirdOrdinate ==
    Converted =>
        \A i \in 1..Len(geojson_data.features) :
            \A t \in TuplesOf(geojson_data.features[i].geometry) : Len(t) <= 2

----------------------------------------------------------------------------
(* standardize_ownership and its helpers *)

(* Attribute names and canonical field names are strings; attribute values,  *)
(* the jurisdiction's name, identifiers and links are texts, NoneT standing  *)
(* for None.  self.config maps a jurisdiction's name to its "ownership"      *)
(* section, a dict that may hold "standardization_mappings" (canonical field *)
(* -> list of candidate attribute names) and "standardized_links" (link name *)
(* -> link description).                                                     *)

\* longest run of plain records numbered in one invocation
MaxRun == 11

\* bool(v) for a text or None
TruthyT(v) == v /= NoneT /\ Len(v) > 0

\* d.get(k, default)
GetOr(d, k, default) == IF k \in DOMAIN d THEN d[k] ELSE default

\* "{v}" inside an f-string
Format(v) == IF v = NoneT THEN << "N", "o", "n", "e" >> ELSE v

RECURSIVE LStripChars(_, _)
LStripChars(t, chars) ==
    IF Len(t) > 0 /\ Head(t) \in chars THEN LStripChars(Tail(t), chars) ELSE t

RECURSIVE RStripChars(_, _)
RStripChars(t, chars) ==
    IF Len(t) > 0 /\ t[Len(t)] \in chars
    THEN RStripChars(SubSeq(t, 1, Len(t) - 1), chars)
    ELSE t

\* str.strip(chars)
StripChars(t, chars) == RStripChars(LStripChars(t, chars), chars)

\* one decimal digit as a character
DigitChar(d) ==
    CASE d = 0 -> "0" [] d = 1 -> "1" [] d = 2 -> "2" [] d = 3 -> "3" [] d = 4 -> "4"
      [] d = 5 -> "5" [] d = 6 -> "6" [] d = 7 -> "7" [] d = 8 -> "8" [] d = 9 -> "9"

\* str(i) for i >= 0
RECURSIVE Str(_)
Str(i) == IF i < 10 THEN << DigitChar(i) >> ELSE Str(i \div 10) \o << DigitChar(i % 10) >>

\* str.zfill(width) for a text without sign
RECURSIVE ZFill(_, _)
ZFill(t, width) == IF Len(t) >= width THEN t ELSE ZFill(<< "0" >> \o t, width)

\* the sequence number is written without padding
UniqueIdNoPad(name, i) == Lower(name) \o << "_" >> \o Str(i)

\* line 188
UniqueId(name, i) == Lower(name) \o << "_" >> \o ZFill(Str(i), 6)

\* get_mappings (lines 22-26)
GetMappings(cfg, name) ==
    GetOr(GetOr(cfg, name, EmptyDict), "standardization_mappings", EmptyDict)

\* get_links_config (lines 28-31)
GetLinksConfig(cfg, name) ==
    GetOr(GetOr(cfg, name, EmptyDict), "standardized_links", EmptyDict)

\* the first candidate present in the record decides
ExtractFirstPresent(props, mappings, field) ==
    LET mapping == GetOr(mappings, field, << >>)
        present == { k \in 1..Len(mapping) : mapping[k] \in DOMAIN props }
    IN IF present /= {}
       THEN props[mapping[CHOOSE k \in present : \A j \in present : k <= j]]
       ELSE NoneT

\* a field without a mapping is given the empty text
ExtractFromMappingEmpty(props, mappings, field) ==
    LET mapping == GetOr(mappings, field, << >>)
    IN IF Len(mapping) > 0 THEN GetOr(props, mapping[1], NoneT) ELSE << >>

\* _extract_from_mapping (lines 243-249)
ExtractFromMapping(props, mappings, field) ==
    LET mapping == GetOr(mappings, field, << >>)
    IN IF Len(mapping) > 0 THEN GetOr(props, mapping[1], NoneT) ELSE NoneT

Returned(value) == [raised |-> NoError, value |-> value]
Raised(exception) == [raised |-> exception, value |-> NoneT]

\* _extract_mailing_address (lines 251-267): the value returned or the exception raised
ExtractMailingAddress(props, mappings) ==
    LET m == GetOr(mappings, "mailing_address", << >>)
    IN IF Len(m) > 1
       THEN LET address == GetOr(props, m[1], << >>)
                city == GetOr(props, m[2], << >>)
                state == IF Len(m) > 2 THEN GetOr(props, m[3], << >>) ELSE << >>
                zip_code == IF Len(m) > 3 THEN GetOr(props, m[4], << >>) ELSE << >>
                rest == Strip(<< ",", " " >> \o Format(city) \o << ",", " " >>
                              \o Format(state) \o << " " >> \o Format(zip_code))
            IN IF TruthyT(city) \/ TruthyT(state) \/ TruthyT(zip_code)
               THEN IF address = NoneT THEN Raised("TypeError")
                    ELSE Returned(StripChars(address \o rest, { ",", " " }))
               ELSE IF address = NoneT THEN Raised("AttributeError")
                    ELSE Returned(StripChars(address, { ",", " " }))
       ELSE IF Len(m) = 1
       THEN IF m[1] \in DOMAIN props /\ TruthyT(props[m[1]])
            THEN Returned(props[m[1]])
            ELSE Returned(NoneT)
       ELSE Returned(NoneT)

\* the attribute's value is appended whether or not the record has it
BuildLinkUnchecked(props, link_info) ==
    IF DOMAIN link_info = {} THEN NoneT
    ELSE IF "static_url" \in DOMAIN link_info THEN link_info["static_url"]
    ELSE IF "base_url" \in DOMAIN link_info /\ "field" \in DOMAIN link_info
         THEN link_info["base_url"] \o Format(GetOr(props, link_info["field"], NoneT))
    ELSE NoneT

\* build_link (lines 190-201); link_info is EmptyDict when the link is not configured
BuildLink(props, link_info) ==
    IF DOMAIN link_info = {} THEN NoneT
    ELSE IF "static_url" \in DOMAIN link_info THEN link_info["static_url"]
    ELSE IF "base_url" \in DOMAIN link_info /\ "field" \in DOMAIN link_info
         THEN LET field_val == GetOr(props, link_info["field"], NoneT)
              IN IF TruthyT(field_val) THEN link_info["base_url"] \o field_val ELSE NoneT
    ELSE NoneT

\* "link or None" (lines 223-225)
OrNone(v) == IF TruthyT(v) THEN v ELSE NoneT

\* canonical key -> the mapping field it is read from (lines 211-222)
MappingField ==
    [county_parcel_id_num |-> "parcel_id",
     owner_name |-> "owner_name",
     physical_address |-> "physical_address",
     acreage |-> "acreage",
     property_value |-> "property_value",
     deed_reference |-> "deed_reference",
     tax_year |-> "tax_year",
     owner_city |-> "owner_city",
     owner_state |-> "owner_state",
     owner_zip |-> "owner_zip"]
    @@ ("land_type/description" :> "land_type_description")

\* canonical key -> the link it is built from (lines 203-205)
LinkName ==
    [property_details_link |-> "property_details",
     tax_details_link |-> "tax_details",
     clerk_records_link |-> "clerk_records"]

\* standardized_props with raw_data (lines 208-230)
StandardizedProps(props, mappings, links_cfg, name, i) ==
    [key \in (DOMAIN MappingField) \cup (DOMAIN LinkName)
              \cup { "global_parcel_uid", "county", "mailing_address", "raw_data" } |->
        CASE key = "global_parcel_uid" -> UniqueId(name, i)
          [] key = "county" -> name
          [] key = "mailing_address" -> ExtractMailingAddress(props, mappings).value
          [] key = "raw_data" -> props
          [] key \in DOMAIN LinkName ->
                OrNone(BuildLink(props, GetOr(links_cfg, LinkName[key], EmptyDict)))
          [] OTHER -> ExtractFromMapping(props, mappings, MappingField[key])]

\* the feature appended for record i (lines 232-236)
StandardizedFeature(feature, cfg, name, i) ==
    [properties |-> StandardizedProps(PropsOf(feature), GetMappings(cfg, name),
                                      GetLinksConfig(cfg, name), name, i),
     geometry |-> feature.geometry]

\* the detected system is reprojected whatever it is
NeedsTransformAlways(crs) == crs \in CrsIds

\* line 176
NeedsTransform(crs) == crs \in { "EPSG:3739", "EPSG:2677", "EPSG:3738" }

(* transform_coordinates hands the features to geopandas: from_features reads *)
(* feature["properties"] of every feature and makes one column per attribute  *)
(* name, to_crs reprojects every vertex, and to_json writes every column for  *)
(* every feature, null where the feature had no such attribute.  The          *)
(* projection itself is pyproj's; Reproject stands for it with a map that     *)
(* takes the state-plane tuples of the inputs into the WGS84 range and keeps  *)
(* a third ordinate.                                                          *)

Reproject(t) ==
    IF Len(t) >= 2
    THEN << -(t[1] \div 20000), t[2] \div 30000 >> \o SubSeq(t, 3, Len(t))
    ELSE t

ReprojectPolygon(rings) ==
    [r \in 1..Len(rings) |-> [i \in 1..Len(rings[r]) |-> Reproject(rings[r][i])]]

\* gdf.to_crs on one geometry (line 141)
ReprojectGeometry(g) ==
    IF ~(g.present /\ g.hasCoords) THEN g
    ELSE IF g.type = "Polygon" THEN [g EXCEPT !.coordinates = ReprojectPolygon(g.coordinates)]
    ELSE IF g.type = "MultiPolygon"
         THEN [g EXCEPT !.coordinates =
                  [q \in 1..Len(g.coordinates) |-> ReprojectPolygon(g.coordinates[q])]]
    ELSE IF g.type = "Point" THEN [g EXCEPT !.coordinates = Reproject(g.coordinates)]
    ELSE g

\* the columns of the GeoDataFrame (line 132)
Columns(features) == UNION { DOMAIN features[i].properties : i \in 1..Len(features) }

\* the exception transform_coordinates raises, NoError when it returns:
\* from_features needs "properties" in every feature (line 132), and the sample
\* print reads .exterior of the first geometry (lines 155-157)
TransformError(data) ==
    IF \E i \in 1..Len(data.features) : ~data.features[i].hasProps THEN "KeyError"
    ELSE IF /\ Len(data.features) > 0
            /\ data.features[1].geometry.present
            /\ data.features[1].geometry.type /= "Polygon"
         THEN "AttributeError"
    ELSE NoError

\* transformed_geojson (lines 132-162)
TransformCoordinates(data) ==
    [crs |-> NoCrs,
     features |->
        [i \in 1..Len(data.features) |->
            [hasProps |-> TRUE,
             properties |-> [k \in Columns(data.features) |->
                               GetOr(data.features[i].properties, k, NoneT)],
             geometry |-> ReprojectGeometry(data.features[i].geometry)]]]

\* attribute sets of the input records
PropsAll ==
    [PIDN |-> << "1" >>, OWNER |-> << "o" >>, ADDR |-> << "a" >>, CITY |-> << "c" >>,
     ST |-> << "s" >>, ZIP |-> << "z" >>]
PropsNoZip == [ALT |-> << "2" >>, ADDR |-> << "a" >>, CITY |-> << "c" >>, ST |-> << "s" >>]
PropsNoAddr == [ALT |-> << "2" >>, CITY |-> << "c" >>, ST |-> << "s" >>, ZIP |-> << "z" >>]
PropsAddrOnly == [PIDN |-> << >>, ALT |-> << "2" >>, ADDR |-> << "a" >>]
PropsNullAddr == [ADDR |-> NoneT, CITY |-> << "c" >>]
PropsNullOnly == [ADDR |-> NoneT, OWNER |-> NoneT]
PropsNullCity == [PIDN |-> << "1" >>, ADDR |-> << "a" >>, CITY |-> NoneT, ST |-> << "s" >>]

PolygonWgs == Geometry("Polygon", << << Wgs3, Wgs >> >>)
PolygonPlane == Geometry("Polygon", << << Plane3, Plane >> >>)
MultiPolygonPlane == Geometry("MultiPolygon", << << << Plane >> >> >>)

StdFeatures ==
    { Feature(PropsAll, PolygonWgs),
      Feature(PropsNoZip, PolygonPlane),
      Feature(PropsNoAddr, MultiPolygonPlane),
      Feature(PropsAddrOnly, NullGeometry),
      Feature(PropsNullAddr, PolygonWgs),
      Feature(PropsNullOnly, PolygonWgs),
      Feature(PropsNullCity, PolygonPlane),
      Feature(EmptyDict, PolygonPlane),
      BareFeature(PolygonWgs) }

\* a record whose mapping cannot fail
PlainFeature == Feature(PropsAll, PolygonWgs)

StdRecordSets ==
    SeqUpTo(StdFeatures, MaxFeatures)
        \cup { [k \in 1..n |-> PlainFeature] : n \in (MaxFeatures + 1)..MaxRun }

StdCrsMetadata == { NoCrs, NotDictCrs, NamedCrs(<< "E", "P", "S", "G", ":", "3", "7", "3", "9" >>) }

StdCounties == { << "a", "d", "a" >>, << "P", "i", "n", "e" >> }

\* "ownership" sections of the configuration document
StdSections ==
    { [standardization_mappings |->
          [parcel_id |-> << "PIDN", "ALT" >>, owner_name |-> << "OWNER" >>,
           physical_address |-> << >>,
           mailing_address |-> << "ADDR", "CITY", "ST", "ZIP" >>],
       standardized_links |->
          [property_details |-> [base_url |-> << "u", "/" >>, field |-> "PIDN"],
           tax_details |-> [static_url |-> << "t" >>]]],
      [standardization_mappings |->
          [parcel_id |-> << "ALT", "PIDN" >>, mailing_address |-> << "ADDR", "CITY" >>],
       standardized_links |->
          [property_details |-> [static_url |-> << >>],
           clerk_records |-> [base_url |-> << "u", "/" >>]]],
      [standardization_mappings |->
          [owner_name |-> << "OWNER" >>, mailing_address |-> << "ADDR" >>]],
      [standardization_mappings |-> [mailing_address |-> << "ADDR", "CITY", "ST" >>]],
      EmptyDict }

InitStandardize ==
    /\ pc = "so_detect"
    /\ geojson_data \in { GeoJson(crs, features) :
                             crs \in StdCrsMetadata, features \in StdRecordSets }
    /\ county_name \in StdCounties
    /\ config \in { county_name :> section : section \in StdSections } \cup { EmptyDict }
    /\ StdStart

\* line 173: detection returns
SO_Detect ==
    /\ pc = "so_detect"
    /\ DetectCoordinateSystem(geojson_data) \in CrsIds
    /\ detected_crs' = DetectCoordinateSystem(geojson_data)
    /\ calls' = Append(calls, "detect_coordinate_system")
    /\ pc' = "so_branch"
    /\ UNCHANGED << result, error, mergerVars, html_string, geojson_data, geojson_data0,
                    once, county_name, config, standardized_features, scrapeVars, pipeVars >>

\* line 173: detection raises and ends the invocation
SO_DetectRaises ==
    /\ pc = "so_detect"
    /\ DetectCoordinateSystem(geojson_data) \notin CrsIds
    /\ error' = DetectCoordinateSystem(geojson_data)
    /\ calls' = Append(calls, "detect_coordinate_system")
    /\ pc' = "error"
    /\ UNCHANGED << result, mergerVars, html_string, geojson_data, geojson_data0, once,
                    detected_crs, county_name, config, standardized_features, scrapeVars, pipeVars >>

\* lines 176-178: reprojection returns
SO_Transform ==
    /\ pc = "so_branch"
    /\ NeedsTransform(detected_crs)
    /\ TransformError(geojson_data) = NoError
    /\ geojson_data' = TransformCoordinates(geojson_data)
    /\ calls' = Append(calls, "transform_coordinates")
    /\ pc' = "so_convert"
    /\ UNCHANGED << result, error, mergerVars, html_string, geojson_data0, once,
                    detected_crs, county_name, config, standardized_features, scrapeVars, pipeVars >>

\* lines 176-178: reprojection raises and ends the invocation
SO_TransformRaises ==
    /\ pc = "so_branch"
    /\ NeedsTransform(detected_crs)
    /\ TransformError(geojson_data) /= NoError
    /\ error' = TransformError(geojson_data)
    /\ calls' = Append(calls, "transform_coordinates")
    /\ pc' = "error"
    /\ UNCHANGED << result, mergerVars, html_string, geojson_data, geojson_data0, once,
                    detected_crs, county_name, config, standardized_features, scrapeVars, pipeVars >>

\* lines 179-180: the record set is taken as it is
SO_SkipTransform ==
    /\ pc = "so_branch"
    /\ ~NeedsTransform(detected_crs)
    /\ pc' = "so_convert"
    /\ UNCHANGED << result, error, mergerVars, stdVars, scrapeVars, pipeVars >>

\* line 183
SO_Convert2D ==
    /\ pc = "so_convert"
    /\ geojson_data' = ConvertTo2D(geojson_data)
    /\ calls' = Append(calls, "convert_to_2d_coordinates")
    /\ pc' = "so_map"
    /\ UNCHANGED << result, error, mergerVars, html_string, geojson_data0, once,
                    detected_crs, county_name, config, standardized_features, scrapeVars, pipeVars >>

\* lines 186-236: one pass of the loop, for record Len(standardized_features) + 1
SO_MapFeature ==
    /\ pc = "so_map"
    /\ Len(standardized_features) < Len(geojson_data.features)
    /\ LET i == Len(standardized_features) + 1
           feature == geojson_data.features[i]
       IN /\ ExtractMailingAddress(PropsOf(feature),
                                   GetMappings(config, county_name)).raised = NoError
          /\ standardized_features' =
                Append(standardized_features,
                       StandardizedFeature(feature, config, county_name, i))
    /\ calls' = Append(calls, "map")
    /\ UNCHANGED << pc, result, error, mergerVars, html_string, geojson_data, geojson_data0,
                    once, detected_crs, county_name, config, scrapeVars, pipeVars >>

\* line 214: composing the mailing address raises and ends the invocation
SO_MapFeatureRaises ==
    /\ pc = "so_map"
    /\ Len(standardized_features) < Len(geojson_data.features)
    /\ LET i == Len(standardized_features) + 1
           mailed == ExtractMailingAddress(PropsOf(geojson_data.features[i]),
                                           GetMappings(config, county_name))
       IN /\ mailed.raised /= NoError
          /\ error' = mailed.raised
    /\ calls' = Append(calls, "map")
    /\ pc' = "error"
    /\ UNCHANGED << result, mergerVars, html_string, geojson_data, geojson_data0, once,
                    detected_crs, county_name, config, standardized_features, scrapeVars, pipeVars >>

\* lines 238-241
SO_Return ==
    /\ pc = "so_map"
    /\ Len(standardized_features) = Len(geojson_data.features)
    /\ result' = standardized_features
    /\ pc' = "done"
    /\ UNCHANGED << error, mergerVars, stdVars, scrapeVars, pipeVars >>

NextStandardize ==
    \/ SO_Detect
    \/ SO_DetectRaises
    \/ SO_Transform
    \/ SO_TransformRaises
    \/ SO_SkipTransform
    \/ SO_Convert2D
    \/ SO_MapFeature
    \/ SO_MapFeatureRaises
    \/ SO_Return

SpecStandardize == InitStandardize /\ [][NextStandardize]_vars

----------------------------------------------------------------------------
(* Claims about standardize_ownership *)

\* positions in the history at which the step was invoked
Invocations(step) == { k \in 1..Len(calls) : calls[k] = step }

\* C17: every invocation runs detection first, reprojection next exactly when
\* detection yielded a system other than EPSG:4326, then the 2D pass, then the
\* per-record mapping; no record is mapped before the 2D pass has finished, and
\* reprojection is never invoked when detection yielded EPSG:4326.
C17_FixedOrder ==
    /\ Invocations("detect_coordinate_system") = IF calls = << >> THEN {} ELSE { 1 }
    /\ Invocations("transform_coordinates") \subseteq { 2 }
    /\ pc \notin { "so_detect", "so_branch" } /\ error = NoError =>
          (Invocations("transform_coordinates") = { 2 } <=> detected_crs /= "EPSG:4326")
    /\ detected_crs = "EPSG:4326" => Invocations("transform_coordinates") = {}
    /\ Invocations("convert_to_2d_coordinates") \subseteq
          { 1 + Cardinality(Invocations("detect_coordinate_system"))
              + Cardinality(Invocations("transform_coordinates")) }
    /\ \A k \in Invocations("map") :
          \E j \in 1..(k - 1) : calls[j] = "convert_to_2d_coordinates"
    /\ standardized_features /= << >> =>
          /\ Invocations("convert_to_2d_coordinates") /= {}
          /\ geojson_data = ConvertTo2D(geojson_data)
          /\ \A k \in 1..Len(standardized_features) :
                standardized_features[k].geometry = geojson_data.features[k].geometry

\* an invocation returned after detecting a state-plane system, reprojecting,
\* cutting third ordinates and mapping two records
C17_Witness ==
    /\ pc = "done"
    /\ detected_crs = "EPSG:3739"
    /\ calls = << "detect_coordinate_system", "transform_coordinates",
                  "convert_to_2d_coordinates", "map", "map" >>
    /\ geojson_data0.crs.kind = "absent"
    /\ \E t \in TuplesOf(geojson_data0.features[1].geometry) : Len(t) = 3
    /\ \A t \in TuplesOf(result[1].geometry) : Len(t) = 2 /\ Abs(t[1]) <= 180

\* the decimal digit a character stands for, 10 when it is not a digit
DigitOf(c) == IF \E d \in 0..9 : DigitChar(d) = c THEN CHOOSE d \in 0..9 : DigitChar(d) = c ELSE 10

\* the number a text of digits denotes
RECURSIVE DigitsValue(_)
DigitsValue(t) ==
    IF t = << >> THEN 0
    ELSE 10 * DigitsValue(SubSeq(t, 1, Len(t) - 1)) + DigitOf(t[Len(t)])

\* the identifier of the k-th returned record
UidOf(k) == result[k].properties["global_parcel_uid"]

\* the identifier's part after the jurisdiction's name and the underscore
UidDigits(k) == SubSeq(UidOf(k), Len(county_name) + 2, Len(UidOf(k)))

\* C18: an invocation that returns yields one canonical record per input record,
\* in input order; the k-th record's identifier is the jurisdiction's name in
\* lower case, an underscore and k written with six digits, zero-padded, so the
\* identifiers are strictly increasing and pairwise distinct.
C18_SequentialIdentifiers ==
    pc = "done" =>
        /\ Len(result) = Len(geojson_data0.features)
        /\ \A k \in 1..Len(result) :
              /\ Len(UidOf(k)) = Len(county_name) + 1 + 6
              /\ SubSeq(UidOf(k), 1, Len(county_name)) = Lower(county_name)
              /\ UidOf(k)[Len(county_name) + 1] = "_"
              /\ \A j \in 1..6 : DigitOf(UidDigits(k)[j]) < 10
              /\ DigitsValue(UidDigits(k)) = k
              /\ result[k].properties["raw_data"] = PropsOf(geojson_data.features[k])
        /\ \A j, k \in 1..Len(result) :
              j < k => /\ UidOf(j) /= UidOf(k)
                       /\ DigitsValue(UidDigits(j)) < DigitsValue(UidDigits(k))

\* an invocation for a jurisdiction with an upper-case letter in its name
\* returned more than ten records
C18_Witness ==
    /\ pc = "done"
    /\ Len(result) = MaxRun
    /\ Len(result) > 10
    /\ Lower(county_name) /= county_name
    /\ DigitsValue(UidDigits(10)) = 10

\* the candidate list configured for the canonical key, << >> when there is none
Candidates(key) == GetOr(GetMappings(config, county_name), MappingField[key], << >>)

\* the attributes of the k-th input record
InputProps(k) == PropsOf(geojson_data0.features[k])

\* positions of the candidates that are keys of the k-th input record
PresentCandidates(key, k) ==
    { j \in 1..Len(Candidates(key)) : Candidates(key)[j] \in DOMAIN InputProps(k) }

MailingPart(k, j) ==
    LET m == GetOr(GetMappings(config, county_name), "mailing_address", << >>)
    IN IF j <= Len(m) /\ m[j] \in DOMAIN InputProps(k) /\ InputProps(k)[m[j]] /= NoneT
       THEN InputProps(k)[m[j]]
       ELSE << >>

\* C20: with more than one mailing candidate configured, every record is mapped
\* without an exception and its mailing address is candidate[0]'s value followed
\* by ", {candidate[1]}, {candidate[2]} {candidate[3]}", the empty text standing
\* for a missing candidate, with the trailing commas and spaces trimmed.
C20_MailingComposition ==
    /\ ~(pc = "error" /\ calls[Len(calls)] = "map")
    /\ \A k \in 1..Len(standardized_features) :
          Len(GetOr(GetMappings(config, county_name), "mailing_address", << >>)) > 1 =>
              standardized_features[k].properties["mailing_address"] =
                  RStripChars(MailingPart(k, 1) \o << ",", " " >> \o MailingPart(k, 2)
                                \o << ",", " " >> \o MailingPart(k, 3) \o << " " >>
                                \o MailingPart(k, 4), { ",", " " })

\* the rule configured for the link behind the canonical key, EmptyDict when none
LinkRule(key) == GetOr(GetLinksConfig(config, county_name), LinkName[key], EmptyDict)

\* the k-th input record has the attribute with a value that is neither null nor empty
HasValue(k, attribute) ==
    /\ attribute \in DOMAIN InputProps(k)
    /\ InputProps(k)[attribute] /= NoneT
    /\ InputProps(k)[attribute] /= << >>

\* C21: for every mapped record, a static rule yields its fixed URL; a templated
\* rule (base URL and field) yields the base followed by the record's value of
\* the field exactly when the record has a non-empty value for it, and null
\* otherwise.
C21_LinkConstruction ==
    \A k \in 1..Len(standardized_features) :
        \A key \in DOMAIN LinkName :
            LET rule == LinkRule(key)
                link == standardized_features[k].properties[key]
            IN /\ ("static_url" \in DOMAIN rule /\ rule["static_url"] /= << >>)
                     => link = rule["static_url"]
               /\ ("static_url" \notin DOMAIN rule /\ { "base_url", "field" } \subseteq DOMAIN rule)
                     => IF HasValue(k, rule["field"])
                        THEN link = rule["base_url"] \o InputProps(k)[rule["field"]]
                        ELSE link = NoneT

\* two records were mapped under a static and a templated rule: the first has
\* the templated field and got base + value, the second lacks it and got null
C21_Witness ==
    /\ Len(standardized_features) = 2
    /\ "static_url" \in DOMAIN LinkRule("tax_details_link")
    /\ standardized_features[2].properties["tax_details_link"] = << "t" >>
    /\ "field" \in DOMAIN LinkRule("property_details_link")
    /\ HasValue(1, LinkRule("property_details_link")["field"])
    /\ standardized_features[1].properties["property_details_link"] = << "u", "/", "1" >>
    /\ LinkRule("property_details_link")["field"] \notin DOMAIN InputProps(2)
    /\ standardized_features[2].properties["property_details_link"] = NoneT

\* the mailing candidates configured for the jurisdiction, << >> when none
MailingCandidates == GetOr(GetMappings(config, county_name), "mailing_address", << >>)

\* C22: a missing mapping is never fatal.  The mapping step raises only under a
\* configured mailing mapping; every mapped record has null for each canonical
\* field without a candidate list, for the mailing address without candidates
\* and for each link without a rule, and a non-null identifier and jurisdiction;
\* an invocation that returns has mapped every record.
C22_MissingMappingsNotFatal ==
    /\ (pc = "error" /\ calls[Len(calls)] = "map") => Len(MailingCandidates) > 1
    /\ pc = "done" => Len(result) = Len(geojson_data0.features)
    /\ \A k \in 1..Len(standardized_features) :
          LET out == standardized_features[k].properties
          IN /\ \A key \in DOMAIN MappingField :
                   Len(Candidates(key)) = 0 => out[key] = NoneT
             /\ Len(MailingCandidates) = 0 => out["mailing_address"] = NoneT
             /\ \A key \in DOMAIN LinkName :
                   DOMAIN LinkRule(key) = {} => out[key] = NoneT
             /\ out["global_parcel_uid"] /= NoneT
             /\ Len(out["global_parcel_uid"]) > 0
             /\ out["county"] = county_name
             /\ out["county"] /= NoneT

\* an invocation for a jurisdiction without any configuration entry returned two
\* records, one of them with attributes
C22_Witness ==
    /\ pc = "done"
    /\ config = EmptyDict
    /\ Len(result) = 2
    /\ DOMAIN InputProps(1) /= {}
    /\ \A key \in DOMAIN MappingField : result[1].properties[key] = NoneT

----------------------------------------------------------------------------
(* LincolnCountyScraper                                                       *)
(* (src/downloading_and_geojson_processing/lincoln_county_scraper.py)         *)

(* Workers are numbered 0..num_threads-1 as in the code.  A path is a text.   *)
(* A scraped record is a dict with its "Account #" and the page it came from; *)
(* a shard file's content is the dict the worker wrote, key -> record.        *)

\* line 81
LincolnTotalPages == 243

\* line 82
PagesPerThread(n, total) == total \div n

\* line 92
StartPage(i, n, total) == i * PagesPerThread(n, total) + 1

\* the last worker ends where an even share ends
EndPageEven(i, n, total) == (i + 1) * PagesPerThread(n, total)

\* line 93
EndPage(i, n, total) ==
    IF i < n - 1 THEN (i + 1) * PagesPerThread(n, total) ELSE total


\* line 38: the worker's shard file
OutputPath(i) ==
    << "l", "i", "n", "c", "o", "l", "n", "_", "c", "o", "u", "n", "t", "y", "_", "p", "r", "o", "p", "e", "r", "t", "i", "e", "s", "_", "2", "0", "2", "6", "_", "p", "a", "r", "t", "_" >>
        \o Str(i) \o << ".", "j", "s", "o", "n", "l" >>

\* line 39: the worker's file of skipped boxes
SkippedPath(i) ==
    << "l", "i", "n", "c", "o", "l", "n", "_", "c", "o", "u", "n", "t", "y", "_", "s", "k", "i", "p", "p", "e", "d", "_", "p", "r", "o", "p", "e", "r", "t", "i", "e", "s", "_", "2", "0", "2", "6", "_", "p", "a", "r", "t", "_" >>
        \o Str(i) \o << ".", "j", "s", "o", "n" >>

\* pages of the site in the model of the workers' interleavings
ScrapePages == 5
\* most workers in the model of the workers' interleavings
MaxThreads == 2
\* most workers for which the partition of the site's pages is computed
MaxPartitionThreads == 250

\* line 101
FinalOutputPath == << "l", "i", "n", "c", "o", "l", "n", "_", "c", "o", "u", "n", "t", "y", "_", "w", "y", "_", "o", "w", "n", "e", "r", "s", "h", "i", "p", "_", "a", "d", "d", "r", "e", "s", "s", ".", "j", "s", "o", "n", "l" >>

\* line 115
FinalSkippedPath == << "l", "i", "n", "c", "o", "l", "n", "_", "c", "o", "u", "n", "t", "y", "_", "s", "k", "i", "p", "p", "e", "d", "_", "p", "r", "o", "p", "e", "r", "t", "i", "e", "s", "_", "2", "0", "2", "6", ".", "j", "s", "o", "n" >>

\* line 47
FirstPagePath == << "l", "i", "n", "c", "o", "l", "n", "_", "c", "o", "u", "n", "t", "y", "_", "f", "i", "r", "s", "t", "_", "p", "a", "g", "e", ".", "h", "t", "m", "l" >>

Workers == 0..(num_threads - 1)

\* a record as _parse_property_page builds it (lines 153-164)
ScrapedRecord(rwacct, page) == ("Account #" :> rwacct) @@ ("Page" :> ToString(page))

\* what _parse_property_page may return for a page: properties and skipped boxes
PageOutcomes(page) ==
    { [properties |-> "A1" :> ScrapedRecord("A1", page), skipped |-> << >>],
      [properties |-> "A2" :> ScrapedRecord("A2", page), skipped |-> << page >>] }

\* lines 51-52: thread_props[rwacct] = prop_dict for every parsed record
UpdateProps(props, properties) ==
    [k \in (DOMAIN props) \cup (DOMAIN properties) |->
        IF k \in DOMAIN properties THEN properties[k] ELSE props[k]]

\* an error empties what the worker has collected
PropsAtFailureDropped(props) == EmptyDict

\* lines 55-57: the except branch leaves thread_props as it is
PropsAtFailure(props) == props

\* lines 59-62: the lines written to the shard, "Account #" set to the key
ShardContent(props) == [k \in DOMAIN props |-> [props[k] EXCEPT !["Account #"] = k]]

\* a key already in all_properties keeps the record it has
FoldShardKeepFirst(all, shard) ==
    [r \in (DOMAIN all) \cup (DOMAIN shard) |-> IF r \in DOMAIN all THEN all[r] ELSE shard[r]]

\* lines 104-111: one shard folded into all_properties
FoldShard(all, shard) ==
    LET kept == { k \in DOMAIN shard : shard[k]["Account #"] /= "" }
    IN [r \in (DOMAIN all) \cup { shard[k]["Account #"] : k \in kept } |->
          IF \E k \in kept : shard[k]["Account #"] = r
          THEN shard[CHOOSE k \in kept : shard[k]["Account #"] = r]
          ELSE all[r]]

\* the main thread does not wait for the worker
WorkerJoinedAlways(i) == TRUE

\* line 98: t.join() returns once the worker's function has returned
WorkerJoined(i) == wpc[i] = "done"

\* the state scrape_all_properties starts from, before any worker exists
ScrapeStart ==
    /\ mpc = "launch"
    /\ launched = 0
    /\ joined = 0
    /\ wpc = [i \in Workers |-> "unstarted"]
    /\ start_page = [i \in Workers |-> 0]
    /\ end_page = [i \in Workers |-> 0]
    /\ fetched = [i \in Workers |-> {}]
    /\ page_number = [i \in Workers |-> 0]
    /\ thread_props = [i \in Workers |-> EmptyDict]
    /\ thread_skipped = [i \in Workers |-> << >>]
    /\ requested = [i \in Workers |-> {}]
    /\ failed_at = [i \in Workers |-> 0]
    /\ files = EmptyDict
    /\ thread_files = << >>
    /\ skipped_files = << >>
    /\ merged = 0
    /\ all_properties = EmptyDict
    /\ pc = "scrape_all_properties"
    /\ result = << >>
    /\ error = NoError
    /\ MergerIdle
    /\ StdIdle
    /\ PipeIdle

InitScrape ==
    /\ num_threads \in 1..MaxThreads
    /\ total_pages = ScrapePages
    /\ ScrapeStart

\* lines 91-96: the main thread starts worker number launched, which enters its
\* loop over range(start_page, end_page) or, the range being empty, passes it
M_Launch ==
    /\ mpc = "launch"
    /\ launched < num_threads
    /\ LET i == launched
           first == StartPage(i, num_threads, total_pages)
           last == EndPage(i, num_threads, total_pages)
       IN /\ start_page' = [start_page EXCEPT ![i] = first]
          /\ end_page' = [end_page EXCEPT ![i] = last + 1]
          /\ page_number' = [page_number EXCEPT ![i] = first]
          /\ wpc' = [wpc EXCEPT ![i] = IF first < last + 1 THEN "loop" ELSE "write"]
    /\ launched' = launched + 1
    /\ mpc' = IF launched + 1 = num_threads THEN "join" ELSE "launch"
    /\ UNCHANGED << pc, result, error, mergerVars, stdVars, pipeVars, num_threads,
                    fetched, total_pages, joined, thread_props, thread_skipped, requested, failed_at,
                    files, thread_files, skipped_files, merged, all_properties >>

\* lines 40-54: a page is requested, parsed and its records kept; the loop ends
\* with the last page of the range
W_PageScraped(i) ==
    /\ wpc[i] = "loop"
    /\ page_number[i] < end_page[i]
    /\ \E outcome \in PageOutcomes(page_number[i]) :
          /\ thread_props' = [thread_props EXCEPT
                                 ![i] = UpdateProps(thread_props[i], outcome.properties)]
          /\ thread_skipped' = [thread_skipped EXCEPT ![i] = thread_skipped[i] \o outcome.skipped]
          /\ fetched' = [fetched EXCEPT ![i] = fetched[i] \cup
                             { << k, page_number[i] >> : k \in DOMAIN outcome.properties }]
    /\ requested' = [requested EXCEPT ![i] = requested[i] \cup { page_number[i] }]
    /\ files' = IF page_number[i] = 1 /\ i = 0
                THEN Put(files, FirstPagePath, << "html" >>)
                ELSE files
    /\ page_number' = [page_number EXCEPT ![i] = page_number[i] + 1]
    /\ wpc' = [wpc EXCEPT ![i] = IF page_number[i] + 1 < end_page[i] THEN "loop" ELSE "write"]
    /\ UNCHANGED << pc, result, error, mergerVars, stdVars, pipeVars, num_threads,
                    total_pages, start_page, end_page, mpc, launched, joined, failed_at,
                    thread_files, skipped_files, merged, all_properties >>

\* lines 43-57: the request or the parse raises and the worker leaves its loop
W_PageFails(i) ==
    /\ wpc[i] = "loop"
    /\ page_number[i] < end_page[i]
    /\ requested' = [requested EXCEPT ![i] = requested[i] \cup { page_number[i] }]
    /\ failed_at' = [failed_at EXCEPT ![i] = page_number[i]]
    /\ thread_props' = [thread_props EXCEPT ![i] = PropsAtFailure(thread_props[i])]
    /\ wpc' = [wpc EXCEPT ![i] = "write"]
    /\ UNCHANGED << pc, result, error, mergerVars, stdVars, pipeVars, num_threads,
                    fetched, total_pages, start_page, end_page, mpc, launched, joined, page_number,
                    thread_skipped, files, thread_files, skipped_files, merged,
                    all_properties >>

\* lines 59-64: the worker writes its shard and its skipped boxes
W_WriteFiles(i) ==
    /\ wpc[i] = "write"
    /\ files' = Put(Put(files, OutputPath(i), ShardContent(thread_props[i])),
                    SkippedPath(i), thread_skipped[i])
    /\ wpc' = [wpc EXCEPT ![i] = "register"]
    /\ UNCHANGED << pc, result, error, mergerVars, stdVars, pipeVars, num_threads,
                    fetched, total_pages, start_page, end_page, mpc, launched, joined, page_number,
                    thread_props, thread_skipped, requested, failed_at, thread_files,
                    skipped_files, merged, all_properties >>

\* line 66
W_Register(i) ==
    /\ wpc[i] = "register"
    /\ thread_files' = Append(thread_files, OutputPath(i))
    /\ wpc' = [wpc EXCEPT ![i] = "register_skipped"]
    /\ UNCHANGED << pc, result, error, mergerVars, stdVars, pipeVars, num_threads,
                    fetched, total_pages, start_page, end_page, mpc, launched, joined, page_number,
                    thread_props, thread_skipped, requested, failed_at, files,
                    skipped_files, merged, all_properties >>

\* line 67, after which the worker's function returns
W_RegisterSkipped(i) ==
    /\ wpc[i] = "register_skipped"
    /\ skipped_files' = Append(skipped_files, SkippedPath(i))
    /\ wpc' = [wpc EXCEPT ![i] = "done"]
    /\ UNCHANGED << pc, result, error, mergerVars, stdVars, pipeVars, num_threads,
                    fetched, total_pages, start_page, end_page, mpc, launched, joined, page_number,
                    thread_props, thread_skipped, requested, failed_at, files,
                    thread_files, merged, all_properties >>

\* lines 97-98: the main thread joins the workers in the order it started them
M_Join ==
    /\ mpc = "join"
    /\ joined < num_threads
    /\ WorkerJoined(joined)
    /\ joined' = joined + 1
    /\ mpc' = IF joined + 1 = num_threads THEN "merge" ELSE "join"
    /\ UNCHANGED << pc, result, error, mergerVars, stdVars, pipeVars, num_threads,
                    fetched, total_pages, start_page, end_page, launched, wpc, page_number,
                    thread_props, thread_skipped, requested, failed_at, files, thread_files,
                    skipped_files, merged, all_properties >>

\* lines 104-111: the next registered shard is read and folded
M_MergeShard ==
    /\ mpc = "merge"
    /\ merged < Len(thread_files)
    /\ LET shard == files[thread_files[merged + 1]]
       IN /\ all_properties' = FoldShard(all_properties, shard)
          /\ files' = Put(files, FinalOutputPath,
                          Append(GetOr(files, FinalOutputPath, << >>), shard))
    /\ merged' = merged + 1
    /\ UNCHANGED << pc, result, error, mergerVars, stdVars, pipeVars, num_threads,
                    fetched, total_pages, start_page, end_page, mpc, launched, joined, wpc,
                    page_number, thread_props, thread_skipped, requested, failed_at,
                    thread_files, skipped_files >>

\* the concatenation of the skipped lists in the files named (lines 116-119)
RECURSIVE AllSkipped(_, _, _)
AllSkipped(paths, contents, n) ==
    IF n = 0 THEN << >>
    ELSE AllSkipped(paths, contents, n - 1) \o contents[paths[n]]

\* lines 103-124: the shards are exhausted, the skipped lists are merged, return
M_Return ==
    /\ mpc = "merge"
    /\ merged = Len(thread_files)
    /\ files' = Put(IF FinalOutputPath \in DOMAIN files THEN files
                    ELSE Put(files, FinalOutputPath, << >>),
                    FinalSkippedPath, AllSkipped(skipped_files, files, Len(skipped_files)))
    /\ result' = all_properties
    /\ mpc' = "done"
    /\ pc' = "done"
    /\ UNCHANGED << error, mergerVars, stdVars, pipeVars, num_threads,
                    fetched, total_pages, start_page, end_page, launched, joined, wpc,
                    page_number, thread_props, thread_skipped, requested, failed_at,
                    thread_files, skipped_files, merged, all_properties >>

NextScrape ==
    \/ M_Launch
    \/ \E i \in Workers : W_PageScraped(i)
    \/ \E i \in Workers : W_PageFails(i)
    \/ \E i \in Workers : W_WriteFiles(i)
    \/ \E i \in Workers : W_Register(i)
    \/ \E i \in Workers : W_RegisterSkipped(i)
    \/ M_Join
    \/ M_MergeShard
    \/ M_Return

SpecScrape == InitScrape /\ [][NextScrape]_vars

InitPartition ==
    /\ num_threads \in 1..MaxPartitionThreads
    /\ total_pages = LincolnTotalPages
    /\ ScrapeStart

\* the launch loop alone (lines 81-96), for the site's page count
SpecPartition == InitPartition /\ [][M_Launch]_vars

\* the pages worker i is started for: range(start_page, end_page)
AssignedPages(i) == start_page[i]..(end_page[i] - 1)

\* every worker has been started
AllLaunched == launched = num_threads

\* C23: once the workers are started, for every num_threads >= 1 and the site's
\* page count the workers' page ranges are pairwise disjoint, their union is
\* exactly the pages 1..total_pages, and the workers' shard and skipped files
\* are all different files.
C23_DisjointCover ==
    AllLaunched =>
        /\ \A i, j \in Workers : i < j => AssignedPages(i) \cap AssignedPages(j) = {}
        /\ UNION { AssignedPages(i) : i \in Workers } = 1..total_pages
        /\ Cardinality({ OutputPath(i) : i \in Workers } \cup { SkippedPath(i) : i \in Workers })
              = 2 * num_threads

\* the page count is not a multiple of the workers, and the last worker takes the rest
C23_Witness ==
    /\ AllLaunched
    /\ num_threads > 1
    /\ total_pages = LincolnTotalPages
    /\ total_pages % num_threads /= 0
    /\ Cardinality(AssignedPages(num_threads - 1)) > PagesPerThread(num_threads, total_pages)

\* scrape_all_properties has returned
ScrapeReturned == mpc = "done"

\* the shard registered n-th
ShardAt(n) == files[thread_files[n]]

\* the position in thread_files of the last shard that holds key k
LastShardWith(k) ==
    CHOOSE n \in 1..Len(thread_files) :
        /\ k \in DOMAIN ShardAt(n)
        /\ \A m \in (n + 1)..Len(thread_files) : k \notin DOMAIN ShardAt(m)

\* C24: when scrape_all_properties has returned, the keys of the final mapping are
\* exactly the keys occurring in any shard, whatever the order the workers
\* registered in, and each key maps to its record in the last shard, in the order
\* of thread_files, that holds the key.
C24_LastShardWins ==
    ScrapeReturned =>
        /\ DOMAIN all_properties = UNION { DOMAIN ShardAt(n) : n \in 1..Len(thread_files) }
        /\ DOMAIN all_properties = UNION { DOMAIN thread_props[i] : i \in Workers }
        /\ \A k \in DOMAIN all_properties : all_properties[k] = ShardAt(LastShardWith(k))[k]
        /\ result = all_properties

\* two shards hold the same key, worker 1 registered before worker 0, and the
\* surviving record is worker 0's
C24_Witness ==
    /\ ScrapeReturned
    /\ num_threads = 2
    /\ thread_files = << OutputPath(1), OutputPath(0) >>
    /\ "A1" \in DOMAIN thread_props[0]
    /\ "A1" \in DOMAIN thread_props[1]
    /\ thread_props[0]["A1"] /= thread_props[1]["A1"]
    /\ all_properties["A1"] = thread_props[0]["A1"]

\* how often path occurs in a list of paths
Occurrences(paths, path) == Cardinality({ n \in 1..Len(paths) : paths[n] = path })

\* the main thread is reading shards, or has read them
MergeStarted == mpc \in { "merge", "done" }

\* C27: the merge starts only after every worker has terminated; each worker,
\* stopped by a page error or not, has by then written its shard and registered
\* its path exactly once, so the shards merged are exactly num_threads and none
\* of them is written after the merge has started.
C27_MergeAfterAllWorkers ==
    MergeStarted =>
        /\ \A i \in Workers :
              /\ wpc[i] = "done"
              /\ OutputPath(i) \in DOMAIN files
              /\ files[OutputPath(i)] = ShardContent(thread_props[i])
              /\ Occurrences(thread_files, OutputPath(i)) = 1
        /\ Len(thread_files) = num_threads
        /\ merged <= num_threads
        /\ ScrapeReturned => merged = num_threads

\* a worker stopped by a page error and a worker that scraped its whole range
\* have both been merged
C27_Witness ==
    /\ ScrapeReturned
    /\ num_threads = MaxThreads
    /\ merged = num_threads
    /\ \E i, j \in Workers : failed_at[i] /= 0 /\ failed_at[j] = 0

\* the last page on which worker i parsed key k
LastPageOf(i, k) ==
    CHOOSE p \in { q[2] : q \in { f \in fetched[i] : f[1] = k } } :
        \A q \in fetched[i] : q[1] = k => q[2] <= p

\* C28: a worker whose page fails has requested its pages up to that page and
\* none after it; what it parsed before the failure is written to its shard, is
\* in the merged file and its keys are in the merged mapping; a worker without a
\* failure requests its whole range.
C28_FailureKeepsEarlierPages ==
    /\ \A i \in Workers :
          failed_at[i] /= 0 =>
              /\ requested[i] = start_page[i]..failed_at[i]
              /\ page_number[i] = failed_at[i]
              /\ \A f \in fetched[i] : f[2] < failed_at[i]
    /\ ScrapeReturned =>
          \A i \in Workers :
              /\ failed_at[i] = 0 => requested[i] = AssignedPages(i)
              /\ \A f \in fetched[i] :
                    /\ f[1] \in DOMAIN files[OutputPath(i)]
                    /\ files[OutputPath(i)][f[1]] = ScrapedRecord(f[1], LastPageOf(i, f[1]))
                    /\ f[1] \in DOMAIN all_properties
                    /\ \E n \in 1..Len(files[FinalOutputPath]) :
                          /\ f[1] \in DOMAIN files[FinalOutputPath][n]
                          /\ files[FinalOutputPath][n][f[1]]
                                = ScrapedRecord(f[1], LastPageOf(i, f[1]))

\* a worker parsed a record, failed on a later page with pages of its range
\* still ahead, and the other worker scraped its whole range
C28_Witness ==
    /\ ScrapeReturned
    /\ num_threads = 2
    /\ failed_at[1] /= 0
    /\ fetched[1] /= {}
    /\ failed_at[1] < end_page[1] - 1
    /\ failed_at[0] = 0
    /\ requested[0] = AssignedPages(0)

\* ---------------------------------------------------------------------------
\* counties/base_county.py: standardize_data and load_geojson read a file under
\* a list of encodings.  A file is a sequence of bytes; "E9", "C3", "A9" and
\* "81" are the bytes of those values, the others are ASCII characters ("q" is
\* the double quote).
\* ---------------------------------------------------------------------------

\* most bytes in a file of the model
MaxBytes == 3

FileAlphabet == { "1", "q", "E9", "C3", "A9", "81" }

\* the file whose text is the JSON literal null
NullFile == << "n", "u", "l", "l" >>

SampleFiles == UNION { [1..n -> FileAlphabet] : n \in 0..MaxBytes } \cup { NullFile }

\* latin-1 is tried before utf-8
EncodingsLatinFirst == << "latin-1", "utf-8", "cp1252", "iso-8859-1" >>

\* lines 173 and 212
Encodings == << "utf-8", "latin-1", "cp1252", "iso-8859-1" >>

\* the path standardize_data reads (line 165)
CompletePath == "county_ownership_complete.geojson"

UnicodeDecodeError == << "<UnicodeDecodeError>" >>

IsAscii(b) == b \in { "1", "q", "n", "u", "l" }

\* a UTF-8 continuation byte, 0x80..0xBF
IsContinuation(b) == b \in { "A9", "81" }

\* the character of the two-byte sequence C3 b
TwoByteChar(b) == IF b = "A9" THEN "U+00E9" ELSE "U+00C1"

\* the character of the three-byte sequence E9 b c
ThreeByteChar(b, c) ==
    CASE b = "A9" /\ c = "A9" -> "U+9A69"
      [] b = "A9" /\ c = "81" -> "U+9A41"
      [] b = "81" /\ c = "A9" -> "U+9069"
      [] b = "81" /\ c = "81" -> "U+9041"

\* bytes.decode("utf-8")
RECURSIVE DecodeUtf8(_)
DecodeUtf8(bytes) ==
    IF bytes = << >> THEN << >>
    ELSE LET width == CASE IsAscii(bytes[1]) -> 1
                        [] bytes[1] = "C3" -> 2
                        [] bytes[1] = "E9" -> 3
                        [] OTHER -> 0
         IN IF \/ width = 0
               \/ Len(bytes) < width
               \/ \E n \in 2..width : ~IsContinuation(bytes[n])
            THEN UnicodeDecodeError
            ELSE LET rest == DecodeUtf8(SubSeq(bytes, width + 1, Len(bytes)))
                     char == CASE width = 1 -> bytes[1]
                               [] width = 2 -> TwoByteChar(bytes[2])
                               [] width = 3 -> ThreeByteChar(bytes[2], bytes[3])
                 IN IF rest = UnicodeDecodeError THEN UnicodeDecodeError
                    ELSE << char >> \o rest

\* one byte as latin-1 (iso-8859-1) reads it: every byte is a character
Latin1Char(b) ==
    CASE IsAscii(b) -> b
      [] b = "E9" -> "U+00E9"
      [] b = "C3" -> "U+00C3"
      [] b = "A9" -> "U+00A9"
      [] b = "81" -> "U+0081"

\* bytes.decode("latin-1")
DecodeLatin1(bytes) == [n \in 1..Len(bytes) |-> Latin1Char(bytes[n])]

\* bytes.decode("cp1252"): 0x81 is not a character of the code page
DecodeCp1252(bytes) ==
    IF \E n \in 1..Len(bytes) : bytes[n] = "81" THEN UnicodeDecodeError
    ELSE [n \in 1..Len(bytes) |-> Latin1Char(bytes[n])]

\* open(path, encoding=encoding).read()
Decode(bytes, encoding) ==
    CASE encoding = "utf-8" -> DecodeUtf8(bytes)
      [] encoding = "latin-1" -> DecodeLatin1(bytes)
      [] encoding = "cp1252" -> DecodeCp1252(bytes)
      [] encoding = "iso-8859-1" -> DecodeLatin1(bytes)

JSONDecodeError == << "<JSONDecodeError>" >>

\* json.loads of a text: a number, a string, null, or a JSONDecodeError
ParseJson(text) ==
    CASE text /= << >> /\ (\A n \in 1..Len(text) : text[n] = "1") -> << "number" >> \o text
      [] /\ Len(text) >= 2
         /\ text[1] = "q"
         /\ text[Len(text)] = "q"
         /\ \A n \in 2..(Len(text) - 1) : text[n] /= "q" ->
             << "string" >> \o SubSeq(text, 2, Len(text) - 1)
      [] text = NullFile -> NoneT
      [] OTHER -> JSONDecodeError

\* with open(path, encoding=encoding) as f: json.load(f)  (lines 178-179, 216-217)
LoadWith(bytes, encoding) ==
    LET text == Decode(bytes, encoding)
    IN IF text = UnicodeDecodeError THEN UnicodeDecodeError ELSE ParseJson(text)

\* the attempt raised one of the two exceptions the loop catches
LoadFailed(bytes, encoding) ==
    LoadWith(bytes, encoding) \in { UnicodeDecodeError, JSONDecodeError }

NoRaise == [type |-> "", path |-> "", encodings |-> << >>]

\* lines 188 and 223: the message names the path and the list of encodings
CouldNotRead == [type |-> "ValueError", path |-> CompletePath, encodings |-> Encodings]

InitRead ==
    /\ pc \in { "standardize_data", "load_geojson" }
    /\ file_exists \in BOOLEAN
    /\ file_bytes \in (IF file_exists THEN SampleFiles ELSE { << >> })
    /\ tried = << >>
    /\ data_to_standardize = NoneT
    /\ std_invoked = FALSE
    /\ sd_error = NoRaise
    /\ result = << >>
    /\ error = NoError
    /\ RunIdle
    /\ MergerIdle
    /\ StdIdle
    /\ ScrapeIdle

\* lines 166-167, and open() at line 216: there is no such file
RD_Missing ==
    /\ pc \in { "standardize_data", "load_geojson" }
    /\ ~file_exists
    /\ sd_error' = [type |-> "FileNotFoundError", path |-> CompletePath, encodings |-> << >>]
    /\ pc' = "raised"
    /\ UNCHANGED << result, error, mergerVars, stdVars, scrapeVars, runVars, file_exists,
                    file_bytes, tried, data_to_standardize, std_invoked >>

\* lines 176-181 and 214-217: the file decodes and parses under the next encoding
RD_Loaded ==
    /\ pc \in { "standardize_data", "load_geojson" }
    /\ file_exists
    /\ Len(tried) < Len(Encodings)
    /\ LET encoding == Encodings[Len(tried) + 1]
       IN /\ ~LoadFailed(file_bytes, encoding)
          /\ tried' = Append(tried, encoding)
          /\ data_to_standardize' = LoadWith(file_bytes, encoding)
    /\ pc' = IF pc = "load_geojson" THEN "returned" ELSE "after_loop"
    /\ UNCHANGED << result, error, mergerVars, stdVars, scrapeVars, runVars, file_exists,
                    file_bytes, std_invoked, sd_error >>

\* lines 182-185 and 218-223: the attempt raises and the loop goes on; after the
\* last encoding load_geojson raises and standardize_data leaves its loop
RD_Continue ==
    /\ pc \in { "standardize_data", "load_geojson" }
    /\ file_exists
    /\ Len(tried) < Len(Encodings)
    /\ LET encoding == Encodings[Len(tried) + 1]
       IN /\ LoadFailed(file_bytes, encoding)
          /\ tried' = Append(tried, encoding)
    /\ IF Len(tried) + 1 < Len(Encodings)
       THEN UNCHANGED << pc, sd_error >>
       ELSE IF pc = "load_geojson"
            THEN pc' = "raised" /\ sd_error' = CouldNotRead
            ELSE pc' = "after_loop" /\ UNCHANGED sd_error
    /\ UNCHANGED << result, error, mergerVars, stdVars, scrapeVars, runVars, file_exists,
                    file_bytes, data_to_standardize, std_invoked >>

\* lines 187-188
SD_RaiseNoData ==
    /\ pc = "after_loop"
    /\ data_to_standardize = NoneT
    /\ sd_error' = CouldNotRead
    /\ pc' = "raised"
    /\ UNCHANGED << result, error, mergerVars, stdVars, scrapeVars, runVars, file_exists,
                    file_bytes, tried, data_to_standardize, std_invoked >>

\* lines 190-196: the standardizer is called, and returns or raises
SD_Standardize ==
    /\ pc = "after_loop"
    /\ data_to_standardize /= NoneT
    /\ std_invoked' = TRUE
    /\ \E returns \in BOOLEAN :
          IF returns
          THEN pc' = "returned" /\ UNCHANGED sd_error
          ELSE /\ pc' = "raised"
               /\ sd_error' = [type |-> "StandardizerError", path |-> "", encodings |-> << >>]
    /\ UNCHANGED << result, error, mergerVars, stdVars, scrapeVars, runVars, file_exists,
                    file_bytes, tried, data_to_standardize >>

NextRead ==
    \/ RD_Missing
    \/ RD_Loaded
    \/ RD_Continue
    \/ SD_RaiseNoData
    \/ SD_Standardize

SpecRead == InitRead /\ [][NextRead]_vars

\* the operation has returned or raised
ReadEnded == pc \in { "returned", "raised" }

\* the file loads under no encoding of the list
NoEncodingLoads ==
    \A n \in 1..4 :
        LoadFailed(file_bytes, << "utf-8", "latin-1", "cp1252", "iso-8859-1" >>[n])

\* C25: the encodings utf-8, latin-1, cp1252, iso-8859-1 are tried in that order;
\* every encoding tried before the last one tried has failed, so the first one
\* under which the file decodes and parses gives the data and none is tried
\* after it; when the file loads under none of them the operation raises a
\* ValueError naming the path and the encodings and the standardizer is not
\* called.
C25_EncodingFallback ==
    /\ IsPrefix(tried, << "utf-8", "latin-1", "cp1252", "iso-8859-1" >>)
    /\ \A n \in 1..(Len(tried) - 1) : LoadFailed(file_bytes, tried[n])
    /\ (ReadEnded /\ file_exists /\ ~NoEncodingLoads) =>
          /\ ~LoadFailed(file_bytes, tried[Len(tried)])
          /\ data_to_standardize = LoadWith(file_bytes, tried[Len(tried)])
    /\ (ReadEnded /\ file_exists /\ NoEncodingLoads) =>
          /\ Len(tried) = 4
          /\ pc = "raised"
          /\ sd_error.type = "ValueError"
          /\ sd_error.path = CompletePath
          /\ sd_error.encodings = << "utf-8", "latin-1", "cp1252", "iso-8859-1" >>
          /\ ~std_invoked

\* a file that is not UTF-8 is read as latin-1 and handed to the standardizer
C25_Witness ==
    /\ pc = "returned"
    /\ tried = << "utf-8", "latin-1" >>
    /\ LoadFailed(file_bytes, "utf-8")
    /\ std_invoked

\* ---------------------------------------------------------------------------
\* ownership_pipeline.py: process_all_counties, process_county and
\* generate_pmtiles, with the county's template method of base_county.py.
\* A file is named by directory, county and file name; the content of a
\* GeoJSON or tile file is the sequence of its features.
\* ---------------------------------------------------------------------------

\* most counties in a county_list of the model
MaxCounties == 2

Counties == { "teton_county_wy", "lincoln_county_wy" }

CountyLists == UNION { [1..n -> Counties] : n \in 0..MaxCounties }

\* lines 86, 110, and data_standardizer.py line 274
FinalPath(c) == << "geojsons_for_db_upload", c, "final_ownership.geojson" >>

\* a file of the county's working directory (line 73)
WorkPath(c) == << "data_files", c, "ownership_complete.geojson" >>

\* line 135
CombinedFile == << "tiles", "", "combined_ownership.geojson" >>

\* line 165
MbtilesFile == << "tiles", "", "combined_ownership.mbtiles" >>

\* line 193
PmtilesFile == << "tiles", "", "combined_ownership.pmtiles" >>

\* the return value None
NonePath == << "<None>", "", "" >>

\* a feature of the county, written by the run-th call of process_county
\* (0: left by an earlier pipeline run)
CountyFeature(c, run) == [county |-> c, run |-> run]

\* only the working directory is cleared
ClearedWorkingOnly(c) == { WorkPath(c) }

\* lines 73-76: the files of the two directories process_county clears
Cleared(c) == { WorkPath(c), FinalPath(c) }

\* lines 18-28: the files left once the named ones are deleted; a file whose
\* deletion fails is reported and stays
ClearDirectory(files_on_disk, paths) ==
    [q \in { r \in DOMAIN files_on_disk : r \notin paths \/ r \in undeletable } |->
        files_on_disk[q]]

\* the failure leaves process_all_counties
AfterFailureAbort == "raised"

\* lines 245-247: the except branch goes on with the next county
AfterFailure == "loop"

\* base_county.py lines 52-65 after create_county (line 79): the step after a step
StepAfter(step, merging) ==
    CASE step = "create" -> "collect"
      [] step = "collect" -> "rename"
      [] step = "rename" -> IF merging THEN "merge" ELSE "standardize"
      [] step = "merge" -> "standardize"
      [] step = "standardize" -> "save"

\* the names bound in generate_pmtiles: its parameters and locals
GenerateLocals ==
    { "self", "county_list", "combined_file", "tiles_dir", "mbtiles_file", "cmd",
      "pmtiles_file", "convert" }

\* the names bound at module level (lines 1-54 and 271)
ModuleGlobals ==
    { "json", "os", "shutil", "sys", "subprocess", "Path", "datetime", "pmtiles_cycle_dir",
      "DataMerger", "DataStandardizer", "upload_geojson_to_gcs", "clear_directory",
      "CountyFactory", "OwnershipPipeline", "main" }

\* whether reading the name in generate_pmtiles finds a value, or raises NameError
NameResolves(name) == name \in GenerateLocals \cup ModuleGlobals

\* lines 109-120: the features of the final files of the listed counties
RECURSIVE CombinedFeatures(_, _, _)
CombinedFeatures(files_on_disk, list, n) ==
    IF n = 0 THEN << >>
    ELSE CombinedFeatures(files_on_disk, list, n - 1)
            \o (IF FinalPath(list[n]) \in DOMAIN files_on_disk
                THEN files_on_disk[FinalPath(list[n])]
                ELSE << >>)

\* lines 201-222: the return value once the conversion has returned
VerifiedResult(files_on_disk) ==
    IF PmtilesFile \in DOMAIN files_on_disk /\ files_on_disk[PmtilesFile] /= << >>
    THEN IF NameResolves("total_features") THEN PmtilesFile ELSE NonePath
    ELSE NonePath

\* the county being processed
County == county_list[county_i]

\* the record of the current call of process_county with step added
StepDone(step) == [runs EXCEPT ![county_i].steps = Append(@, step)]

RunEnded(how) == [runs EXCEPT ![county_i].ended = how]

InitPipeline ==
    /\ county_list \in CountyLists
    /\ generate_pmtiles \in BOOLEAN
    /\ do_upload \in BOOLEAN
    /\ needs_merging \in [Counties -> BOOLEAN]
    /\ \E stale \in SUBSET Counties :
          /\ fs = [q \in { FinalPath(c) : c \in stale } \cup { WorkPath(c) : c \in stale } |->
                     << CountyFeature(q[2], 0) >>]
          /\ undeletable \in SUBSET { FinalPath(c) : c \in stale }
    /\ county_i = 0
    /\ ppc = "loop"
    /\ runs = << >>
    /\ pmtiles_file = NonePath
    /\ tiles_attempted = FALSE
    /\ pc = "process_all_counties"
    /\ result = << >>
    /\ error = NoError
    /\ ReadIdle
    /\ MergerIdle
    /\ StdIdle
    /\ ScrapeIdle

\* lines 238-243 and 73-76: the next county's process_county starts and clears
\* the county's two directories
PC_Clear ==
    /\ ppc = "loop"
    /\ county_i < Len(county_list)
    /\ county_i' = county_i + 1
    /\ runs' = Append(runs, [county |-> county_list[county_i + 1], steps |-> << >>,
                             ended |-> ""])
    /\ fs' = ClearDirectory(fs, Cleared(county_list[county_i + 1]))
    /\ ppc' = "create"
    /\ UNCHANGED << pc, result, error, mergerVars, stdVars, scrapeVars, readVars,
                    county_list, generate_pmtiles, do_upload, needs_merging, undeletable,
                    pmtiles_file, tiles_attempted >>

\* line 79 and base_county.py lines 52-62: a step before the save succeeds
PC_StepOk ==
    /\ ppc \in { "create", "collect", "rename", "merge", "standardize" }
    /\ runs' = StepDone(ppc)
    /\ ppc' = StepAfter(ppc, needs_merging[County])
    /\ UNCHANGED << pc, result, error, mergerVars, stdVars, scrapeVars, readVars, fs,
                    county_list, generate_pmtiles, do_upload, needs_merging, undeletable,
                    county_i, pmtiles_file, tiles_attempted >>

\* the step raises; process_all_counties catches it (lines 245-247)
PC_StepRaises ==
    /\ ppc \in { "create", "collect", "rename", "merge", "standardize" }
    /\ runs' = RunEnded("raised")
    /\ ppc' = AfterFailure
    /\ UNCHANGED << pc, result, error, mergerVars, stdVars, scrapeVars, readVars, fs,
                    county_list, generate_pmtiles, do_upload, needs_merging, undeletable,
                    county_i, pmtiles_file, tiles_attempted >>

\* base_county.py line 65: the final file is written; without upload
\* process_county returns (lines 85-94)
PC_Save ==
    /\ ppc = "save"
    /\ fs' = Put(fs, FinalPath(County), << CountyFeature(County, county_i) >>)
    /\ IF do_upload
       THEN ppc' = "upload" /\ runs' = StepDone("save")
       ELSE /\ ppc' = "loop"
            /\ runs' = [runs EXCEPT ![county_i].steps = Append(@, "save"),
                                     ![county_i].ended = "returned"]
    /\ UNCHANGED << pc, result, error, mergerVars, stdVars, scrapeVars, readVars,
                    county_list, generate_pmtiles, do_upload, needs_merging, undeletable,
                    county_i, pmtiles_file, tiles_attempted >>

\* lines 85-94: the upload returns, uploaded or with its CalledProcessError caught
PC_Upload ==
    /\ ppc = "upload"
    /\ runs' = [runs EXCEPT ![county_i].steps = Append(@, "upload"),
                             ![county_i].ended = "returned"]
    /\ ppc' = "loop"
    /\ UNCHANGED << pc, result, error, mergerVars, stdVars, scrapeVars, readVars, fs,
                    county_list, generate_pmtiles, do_upload, needs_merging, undeletable,
                    county_i, pmtiles_file, tiles_attempted >>

\* line 88: the upload raises another error, such as gsutil not being installed
PC_UploadRaises ==
    /\ ppc = "upload"
    /\ runs' = RunEnded("raised")
    /\ ppc' = AfterFailure
    /\ UNCHANGED << pc, result, error, mergerVars, stdVars, scrapeVars, readVars, fs,
                    county_list, generate_pmtiles, do_upload, needs_merging, undeletable,
                    county_i, pmtiles_file, tiles_attempted >>

\* lines 249-254: the loop is over
PA_AfterLoop ==
    /\ ppc = "loop"
    /\ county_i = Len(county_list)
    /\ tiles_attempted' = generate_pmtiles
    /\ ppc' = IF generate_pmtiles THEN "combine" ELSE "done"
    /\ UNCHANGED << pc, result, error, mergerVars, stdVars, scrapeVars, readVars, fs,
                    county_list, generate_pmtiles, do_upload, needs_merging, undeletable,
                    county_i, runs, pmtiles_file >>

\* lines 153-156 and 122-124: nothing to combine
GP_CombineEmpty ==
    /\ ppc = "combine"
    /\ CombinedFeatures(fs, county_list, Len(county_list)) = << >>
    /\ pmtiles_file' = NonePath
    /\ ppc' = "done"
    /\ UNCHANGED << pc, result, error, mergerVars, stdVars, scrapeVars, readVars, fs,
                    county_list, generate_pmtiles, do_upload, needs_merging, undeletable,
                    county_i, runs, tiles_attempted >>

\* lines 153 and 109-142: the combined layer is written
GP_Combine ==
    /\ ppc = "combine"
    /\ CombinedFeatures(fs, county_list, Len(county_list)) /= << >>
    /\ fs' = Put(fs, CombinedFile, CombinedFeatures(fs, county_list, Len(county_list)))
    /\ ppc' = "tippecanoe"
    /\ UNCHANGED << pc, result, error, mergerVars, stdVars, scrapeVars, readVars,
                    county_list, generate_pmtiles, do_upload, needs_merging, undeletable,
                    county_i, runs, pmtiles_file, tiles_attempted >>

\* lines 165-189: tippecanoe writes the MBTiles file
GP_Tippecanoe ==
    /\ ppc = "tippecanoe"
    /\ fs' = Put(fs, MbtilesFile, fs[CombinedFile])
    /\ ppc' = "convert"
    /\ UNCHANGED << pc, result, error, mergerVars, stdVars, scrapeVars, readVars,
                    county_list, generate_pmtiles, do_upload, needs_merging, undeletable,
                    county_i, runs, pmtiles_file, tiles_attempted >>

\* line 188: tippecanoe fails or times out, and the error leaves generate_pmtiles
GP_TippecanoeRaises ==
    /\ ppc = "tippecanoe"
    /\ ppc' = "raised"
    /\ UNCHANGED << pc, result, error, mergerVars, stdVars, scrapeVars, readVars, fs,
                    county_list, generate_pmtiles, do_upload, needs_merging, undeletable,
                    county_i, runs, pmtiles_file, tiles_attempted >>

\* lines 195-222: the conversion returns, having written the tiles or an empty
\* file; the file is verified, the MBTiles file removed and the value returned
GP_Convert ==
    /\ ppc = "convert"
    /\ \E written \in { fs[MbtilesFile], << >> } :
          LET converted == Put(fs, PmtilesFile, written)
          IN /\ pmtiles_file' = VerifiedResult(converted)
             /\ fs' = IF written /= << >>
                      THEN [q \in DOMAIN converted \ { MbtilesFile } |-> converted[q]]
                      ELSE converted
    /\ ppc' = "done"
    /\ UNCHANGED << pc, result, error, mergerVars, stdVars, scrapeVars, readVars,
                    county_list, generate_pmtiles, do_upload, needs_merging, undeletable,
                    county_i, runs, tiles_attempted >>

\* lines 198 and 218-222: the conversion raises
GP_ConvertRaises ==
    /\ ppc = "convert"
    /\ pmtiles_file' = NonePath
    /\ ppc' = "done"
    /\ UNCHANGED << pc, result, error, mergerVars, stdVars, scrapeVars, readVars, fs,
                    county_list, generate_pmtiles, do_upload, needs_merging, undeletable,
                    county_i, runs, tiles_attempted >>

NextPipeline ==
    \/ PC_Clear
    \/ PC_StepOk
    \/ PC_StepRaises
    \/ PC_Save
    \/ PC_Upload
    \/ PC_UploadRaises
    \/ PA_AfterLoop
    \/ GP_CombineEmpty
    \/ GP_Combine
    \/ GP_Tippecanoe
    \/ GP_TippecanoeRaises
    \/ GP_Convert
    \/ GP_ConvertRaises

SpecPipeline == InitPipeline /\ [][NextPipeline]_vars

\* process_all_counties has left its loop over the counties, or has ended
LoopOver == ppc \in { "combine", "tippecanoe", "convert", "done", "raised" }

\* the counties process_county was called for, in the order of the calls
RECURSIVE CalledFor(_)
CalledFor(n) == IF n = 0 THEN << >> ELSE Append(CalledFor(n - 1), runs[n].county)

\* C26: a failure of one county's processing ends that county's run only: the
\* counties are processed in list order whatever the earlier runs ended with,
\* after the loop every county of the list has been run to its end, and tile
\* generation is then attempted whenever it was asked for.
C26_FailureIsolation ==
    /\ CalledFor(Len(runs)) = SubSeq(county_list, 1, county_i)
    /\ \A n \in 1..(Len(runs) - 1) : runs[n].ended \in { "returned", "raised" }
    /\ LoopOver =>
          /\ CalledFor(Len(runs)) = county_list
          /\ \A n \in 1..Len(runs) : runs[n].ended \in { "returned", "raised" }
          /\ tiles_attempted = generate_pmtiles

\* the first county failed while collecting, the second was processed to its
\* end, and the tiles were generated from it
C26_Witness ==
    /\ ppc = "done"
    /\ Len(county_list) = 2
    /\ runs[1].ended = "raised"
    /\ runs[1].steps = << "create" >>
    /\ runs[2].ended = "returned"
    /\ tiles_attempted
    /\ PmtilesFile \in DOMAIN fs

\* C29: when generate_pmtiles has returned and the converted PMTiles file exists
\* and is not empty (the counties combined to at least one feature, tippecanoe
\* and the conversion succeeded), the value returned is the path of that file.
C29_ReturnsPmtilesPath ==
    (/\ ppc = "done"
     /\ tiles_attempted
     /\ PmtilesFile \in DOMAIN fs
     /\ fs[PmtilesFile] /= << >>) => pmtiles_file = PmtilesFile

\* the last call of process_county for the county of call n
IsLastRunOf(n) == \A m \in (n + 1)..Len(runs) : runs[m].county /= runs[n].county

\* the features of county c in a file
FeaturesOf(c, content) == { k \in 1..Len(content) : content[k].county = c }

\* process_county is between its clearing and its save
BeforeSave == ppc \in { "create", "collect", "rename", "merge", "standardize", "save" }

\* what a final file of county c holds that was written before the n-th call of
\* process_county: by an earlier call, or by an earlier run of the pipeline
OlderContents(c, n) == { << CountyFeature(c, r) >> : r \in 0..(n - 1) }

\* the steps of a run that reached its save, for a county's needs_merging
StepsToSave(merging) ==
    IF merging
    THEN << "create", "collect", "rename", "merge", "standardize", "save" >>
    ELSE << "create", "collect", "rename", "standardize", "save" >>

\* C30 as stated: after a process_county run that failed, at whatever step, the
\* county has no final file and the combined layer has no feature of the county.
C30_FailedRunLeavesNoOutput ==
    \A n \in 1..Len(runs) :
        (runs[n].ended = "raised" /\ IsLastRunOf(n)) =>
            /\ FinalPath(runs[n].county) \notin DOMAIN fs
            /\ CombinedFile \in DOMAIN fs => FeaturesOf(runs[n].county, fs[CombinedFile]) = {}

\* C30: process_county clears the two directories first, so that until the save
\* the county's final file is absent unless it is an older file whose deletion
\* failed; the final file is written last, after create, collect, rename, merge
\* if needed and standardize; and after a run that failed, the final file exists
\* and its features are in the combined layer only if the run failed in the
\* upload, after the save, or the file is an older one whose deletion failed.
C30_FailedRunOutput ==
    /\ BeforeSave =>
          /\ IsPrefix(runs[county_i].steps, StepsToSave(needs_merging[County]))
          /\ FinalPath(County) \in DOMAIN fs =>
                /\ FinalPath(County) \in undeletable
                /\ fs[FinalPath(County)] \in OlderContents(County, county_i)
    /\ \A n \in 1..Len(runs) :
          /\ "save" \in { runs[n].steps[k] : k \in 1..Len(runs[n].steps) } =>
                IsPrefix(StepsToSave(needs_merging[runs[n].county]), runs[n].steps)
          /\ (runs[n].ended = "raised" /\ IsLastRunOf(n)) =>
                LET c == runs[n].county
                    saved == IsPrefix(StepsToSave(needs_merging[c]), runs[n].steps)
                    present == IF FinalPath(c) \in DOMAIN fs THEN fs[FinalPath(c)] ELSE << >>
                IN /\ IF saved THEN present = << CountyFeature(c, n) >>
                      ELSE IF FinalPath(c) \in undeletable
                           THEN present \in OlderContents(c, n)
                           ELSE present = << >>
                   /\ CombinedFile \in DOMAIN fs =>
                         \A k \in FeaturesOf(c, fs[CombinedFile]) :
                             fs[CombinedFile][k] \in { present[j] : j \in 1..Len(present) }

\* a county with an older final file fails while collecting; its final file is
\* gone, and the combined layer holds the other county's features only
C30_Witness ==
    /\ ppc = "done"
    /\ Len(runs) = 2
    /\ runs[1].county /= runs[2].county
    /\ runs[1].ended = "raised"
    /\ runs[1].steps = << "create" >>
    /\ undeletable = {}
    /\ FinalPath(runs[1].county) \notin DOMAIN fs
    /\ CombinedFile \in DOMAIN fs
    /\ fs[CombinedFile] = << CountyFeature(runs[2].county, 2) >>

====
